---- MODULE Spec2Model ----
(***************************************************************************)
(* Webmentions: the handler (incoming and outgoing processors), the        *)
(* callback wrapper and the SQL storage adapter, as a state machine.       *)
(*                                                                         *)
(* The storage is the DbWebmentionsStorage of storage/adapters/db; rows    *)
(* carry the columns the handlers read or write (key, status, published).  *)
(* The processors of handlers/_incoming.py and handlers/_outgoing.py are   *)
(* modelled from their unit tests where a test pins the behaviour and from *)
(* the specification elsewhere.                                            *)
(***************************************************************************)
EXTENDS Integers, Sequences, FiniteSets, TLC

\* ------------------------------------------------------------------------
\* Bounds
\* ------------------------------------------------------------------------
MaxCalls == 1          \* process_outgoing_webmentions calls in one behaviour
MaxClock == 2          \* ticks of the wall clock in one behaviour
MaxTime == 5           \* the last second of time.monotonic() in one behaviour

URLs == {"u1", "u2"}

\* ------------------------------------------------------------------------
\* Entity model (_model.py)
\* ------------------------------------------------------------------------
\* WebmentionDirection.IN / WebmentionDirection.OUT
INCOMING == "incoming"
OUTGOING == "outgoing"
WebmentionDirection == {INCOMING, OUTGOING}

PENDING == "pending"
CONFIRMED == "confirmed"
DELETED == "deleted"
WebmentionStatus == {PENDING, CONFIRMED, DELETED}

\* WebmentionType and WebmentionType.from_raw: the raw string is looked up
\* in the alias table, anything else is UNKNOWN. The value of UNKNOWN itself
\* ("unknown") is not an alias.
UNKNOWN == "unknown"
MENTION == "mention"
REPLY == "reply"
LIKE == "like"
REPOST == "repost"
BOOKMARK == "bookmark"
RSVP == "rsvp"
FOLLOW == "follow"
WebmentionType ==
    {UNKNOWN, MENTION, REPLY, LIKE, REPOST, BOOKMARK, RSVP, FOLLOW}

aliases ==
    [raw \in {"in-reply-to", "reply", "like-of", "like", "repost-of",
              "repost", "bookmark-of", "bookmark", "rsvp", "follow-of",
              "follow", "mention"} |->
       CASE raw \in {"in-reply-to", "reply"} -> REPLY
         [] raw \in {"like-of", "like"} -> LIKE
         [] raw \in {"repost-of", "repost"} -> REPOST
         [] raw \in {"bookmark-of", "bookmark"} -> BOOKMARK
         [] raw = "rsvp" -> RSVP
         [] raw \in {"follow-of", "follow"} -> FOLLOW
         [] OTHER -> MENTION]

from_raw(raw) ==
    IF raw = "" THEN UNKNOWN
    ELSE IF raw \in DOMAIN aliases THEN aliases[raw] ELSE UNKNOWN

\* An optional field holds None or one value; a set value is a tuple. A
\* datetime is <<wall clock reading, tzinfo>>: tzinfo Naive for a datetime
\* without timezone, else the UTC offset.
None == <<>>
Some(x) == <<x>>
Naive == ""
UTC == "+00:00"
East == "+02:00"

utcoffset(tz) == IF tz = East THEN 2 ELSE 0

datetime(wall, tz) == <<wall, tz>>

\* The instant a datetime denotes, a timezone-less one being read as UTC.
Instant(d) == d[1] - utcoffset(d[2])

SomeDate == datetime(12, UTC)
Published == {None, SomeDate}

EmptyMeta == "{}"

\* Webmention(source, target, direction, ...): the dataclass with its defaults
\* (status CONFIRMED, published None, mention_type UNKNOWN, ...) unless given.
\* title stands for the descriptive text fields (title, excerpt, content,
\* author_name, author_url, author_photo), which are handled alike.
Webmention(source, target, direction, status, published) ==
    [source |-> source, target |-> target, direction |-> direction,
     title |-> None, published |-> published, status |-> status,
     mention_type |-> UNKNOWN, metadata |-> EmptyMeta,
     created_at |-> None, updated_at |-> None]

NewWebmention(source, target, direction) ==
    Webmention(source, target, direction, CONFIRMED, None)

Key(m) == <<m.source, m.target, m.direction>>

\* datetime.isoformat() and datetime.fromisoformat(): the text keeps the
\* wall clock reading and the offset, if any. A text is told from a datetime
\* by its length.
isoformat(d) == <<"iso", d[1], d[2]>>
fromisoformat(text) == datetime(text[2], text[3])
isinstance_str(value) == Len(value) = 3

\* Webmention.to_dict: asdict with datetimes as ISO text and enums as their
\* values (the enums are str enums, so a value equals its member)
normalize(value) ==
    IF value = None THEN None
    ELSE IF isinstance_str(value) THEN value
    ELSE isoformat(value)

to_dict(m) ==
    [m EXCEPT !.published = normalize(m.published),
              !.created_at = normalize(m.created_at),
              !.updated_at = normalize(m.updated_at)]

\* _parse_dt of Webmention.build: a datetime is kept, an ISO text is parsed
\* and read as UTC if it carries no offset
parse_dt(value) ==
    IF value = None THEN None
    ELSE IF ~isinstance_str(value) THEN value
    ELSE LET dt == fromisoformat(value)
         IN  IF dt[2] = Naive THEN datetime(dt[1], UTC) ELSE dt

\* Webmention.build(data, direction=WebmentionDirection.IN)
build(data, direction) ==
    LET mention_type == from_raw(IF data.mention_type # "" THEN data.mention_type
                                 ELSE MENTION)
    IN  [data EXCEPT !.direction = direction,
                     !.status = IF data.status # "" THEN data.status
                                ELSE CONFIRMED,
                     !.mention_type = mention_type,
                     !.mention_type_raw = Some(mention_type),
                     !.published = parse_dt(data.published),
                     !.created_at = parse_dt(data.created_at),
                     !.updated_at = parse_dt(data.updated_at)]

\* ------------------------------------------------------------------------
\* SQL storage adapter (storage/adapters/db)
\* ------------------------------------------------------------------------
\* sa.DateTime (no timezone): the column keeps the wall clock reading and
\* drops the tzinfo; what is read back is timezone-less.
DateTime(d) == IF d = None THEN None ELSE datetime(d[1], Naive)

\* DbWebmention.from_webmention: the row built from a mention at time now.
\* created_at is the mention's created_at, else its published, else now;
\* updated_at is now. The id column is not kept.
from_webmention(m, now) ==
    LET created_at == IF m.created_at # None THEN m.created_at
                      ELSE IF m.published # None THEN m.published
                      ELSE now
    IN  [source |-> m.source, target |-> m.target, direction |-> m.direction,
         title |-> m.title, published |-> DateTime(m.published),
         status |-> m.status, mention_type |-> m.mention_type,
         meta |-> m.metadata,
         created_at |-> DateTime(created_at), updated_at |-> DateTime(now)]

\* DbWebmention.to_webmention: status is not passed to the constructor, so the
\* dataclass default (CONFIRMED) applies; mention_type goes through from_raw.
to_webmention(row) ==
    [source |-> row.source, target |-> row.target,
     direction |-> row.direction, title |-> row.title,
     published |-> row.published, status |-> CONFIRMED,
     mention_type |-> IF row.mention_type # "" THEN from_raw(row.mention_type)
                      ELSE MENTION,
     metadata |-> row.meta,
     created_at |-> row.created_at, updated_at |-> row.updated_at]

\* published = Column(DateTime, nullable=False)
NotNullViolation(row) == row.published = None

NoUniqueConstraint(tbl, row) == FALSE

\* UniqueConstraint("source", "target", "direction")
UniqueViolation(tbl, row) == \E r \in tbl : Key(r) = Key(row)

Existing(tbl, m) == {r \in tbl : Key(r) = Key(m)}

UpdateRowKeepStatus(existing, m, now) ==
    [existing EXCEPT !.title = m.title, !.published = DateTime(m.published),
                     !.mention_type = m.mention_type,
                     !.updated_at = DateTime(now)]

UpdateRowResetCreated(existing, m, now) ==
    [from_webmention(m, now) EXCEPT !.meta = existing.meta]

\* The update branch of store_webmention: every column of the mention except
\* id/created_at/updated_at is copied onto the existing row (metadata is not a
\* column name, so meta stays), then updated_at is set to now.
UpdateRow(existing, m, now) ==
    [existing EXCEPT !.title = m.title, !.published = DateTime(m.published),
                     !.status = m.status, !.mention_type = m.mention_type,
                     !.updated_at = DateTime(now)]

\* DbWebmentionsStorage.store_webmention at time now. Result: ok = FALSE when
\* the call raises IntegrityError; table is the committed table.
store_webmention(tbl, m, now) ==
    LET row == from_webmention(m, now) IN
    IF ~NotNullViolation(row) /\ ~UniqueViolation(tbl, row)
    THEN [ok |-> TRUE, table |-> tbl \cup {row}]
    ELSE \* IntegrityError on the first INSERT: rollback, then look the key up
         IF Existing(tbl, m) = {}
         THEN \* second INSERT of the same row: fails again and propagates
              [ok |-> FALSE, table |-> tbl]
         ELSE LET existing == CHOOSE r \in Existing(tbl, m) : TRUE
                  updated == UpdateRow(existing, m, now)
              IN  IF NotNullViolation(updated)
                  THEN [ok |-> FALSE, table |-> tbl]
                  ELSE [ok |-> TRUE,
                        table |-> (tbl \ {existing}) \cup {updated}]

DeleteNothing(tbl, source, target, direction) == tbl

DeleteSource(tbl, source, target, direction) ==
    {r \in tbl : r.source # source}

\* DbWebmentionsStorage.delete_webmention
delete_webmention(tbl, source, target, direction) ==
    {r \in tbl : ~(r.source = source /\ r.target = target
                   /\ r.direction = direction)}

\* DbWebmentionsStorage.retrieve_webmentions
retrieve_webmentions(tbl, resource, direction) ==
    {to_webmention(r) : r \in {x \in tbl : x.target = resource
                                          /\ x.direction = direction}}

\* ------------------------------------------------------------------------
\* State
\* ------------------------------------------------------------------------
VARIABLES
    table,                  \* rows of the webmentions table
    initial_mention_status, \* WebmentionsHandler(initial_mention_status=...)
    init_mention_status,    \* IncomingWebmentionsProcessor.init_mention_status
    on_mention_processed,   \* TRUE iff a callback was given to the handler
    on_mention_deleted,     \* TRUE iff a callback was given to the handler
    incoming,               \* the process_incoming_webmention call in progress
    calls,                  \* process_outgoing_webmentions calls, in order
    tasks,                  \* tasks submitted to the outgoing worker pool
    clock,                  \* the wall clock, in ticks
    db,                     \* the last call made on the storage directly
    sessions,               \* the store_webmention calls of the threads
    monotonic,              \* time.monotonic(), in seconds
    watcher_call,           \* the last start()/stop() call on the watcher
    watch_observer,         \* FileSystemWatcher._watch_observer
    watch_thread,           \* FileSystemWatcher._watch_thread
    observer,               \* the Observer created last
    observers_alive,        \* observers started and not stopped
    workers_alive,          \* worker threads started and not ended
    fs_event,               \* the last raw event the observer reported
    watch_queue,            \* FileSystemWatcher._watch_queue
    pending_paths,          \* FileSystemWatcher._pending_paths
    last_event_at,          \* FileSystemWatcher._last_event_at
    last_event_type,        \* FileSystemWatcher._last_event_type
    last_processed_at,      \* FileSystemWatcher._last_processed_at
    on_change,              \* the calls of the sink in the last flush
    sink_raised,            \* the paths whose sink call raised in that flush
    accepted,               \* per path: the last accepted event and the
                            \* sink calls made for the path since
    base_url,               \* WebmentionsHandler(base_url=...)
    http,                   \* the POST being served by the bound route
    file,                   \* the watched source file of the sending server
    monitor,                \* the last change the monitor was handed, and
                            \* the call it made for it
    app,                    \* the state, middleware and routes of a FastAPI
                            \* app, and the last POST it was sent
    applied                 \* the last direct call of a function of the
                            \* library: its name, arguments and result

vars == <<table, initial_mention_status, init_mention_status,
          on_mention_processed, on_mention_deleted, incoming, calls, tasks,
          clock, db, sessions, monotonic, watcher_call, watch_observer, watch_thread,
          observer, observers_alive, workers_alive, fs_event, watch_queue,
          pending_paths,
          last_event_at, last_event_type, last_processed_at, on_change,
          sink_raised, accepted, base_url, http, file, monitor, app, applied>>

dbVars == <<clock, db, sessions>>

lifecycleVars == <<watcher_call, watch_observer, watch_thread, observer,
                   observers_alive, workers_alive>>

debounceVars == <<pending_paths, last_event_at, last_event_type,
                  last_processed_at, on_change, sink_raised>>

watcherVars == <<monotonic, lifecycleVars, fs_event, watch_queue,
                 debounceVars, accepted>>

\* datetime.now(timezone.utc)
utcnow == datetime(clock, UTC)

handlerVars == <<initial_mention_status, init_mention_status,
                 on_mention_processed, on_mention_deleted, base_url>>

\* What the servers serve: the route, and the page of the source file
webVars == <<http, file, monitor, app>>

\* Direct calls of functions that keep no state
pureVars == <<applied>>

storeVars == <<table, handlerVars, pureVars, webVars, incoming, calls, tasks,
               dbVars>>

\* ------------------------------------------------------------------------
\* WebmentionsHandler.__init__ and the callback wrapper (handlers)
\* ------------------------------------------------------------------------
Unset == "unset"

HandlerInitIgnoringStatus(arg) == CONFIRMED

\* initial_mention_status: WebmentionStatus = WebmentionStatus.CONFIRMED,
\* handed to the incoming processor as init_mention_status.
HandlerInit(arg) == IF arg = Unset THEN CONFIRMED ELSE arg

\* What a user callback does when called: returns, raises, or (for
\* on_mention_processed moderation) sets a status and stores the mention again.
Return == "return"
Raise == "raise"
StoreConfirmed == "store_confirmed"
StoreDeleted == "store_deleted"
ProcessedBehaviours == {Return, Raise, StoreConfirmed, StoreDeleted}
DeletedBehaviours == {Return, Raise}

WrapperWithoutTry(callback, behaviour) ==
    [invoked |-> callback, raised |-> callback /\ behaviour = Raise]

\* on_mention_callback_wrapper(callback)(mention): calls the callback if one
\* is set; an exception of the callback is logged, never re-raised.
on_mention_callback_wrapper(callback, behaviour) ==
    [invoked |-> callback, raised |-> FALSE]

\* ------------------------------------------------------------------------
\* Parser: the outcome of WebmentionsRequestParser.parse (handlers/_parser.py)
\* ------------------------------------------------------------------------
Ok == "ok"
ValueError == "ValueError"
HTTPError == "HTTPError"
WebmentionGone == "WebmentionGone"
IntegrityError == "IntegrityError"
CallbackError == "CallbackError"

StatusCodes == {200, 304, 404, 410, 500}

\* resp: the answer of GET source: its status code and whether the body
\* mentions the target (_source_mentions_target).
Responses == [status_code : StatusCodes, mentions_target : BOOLEAN]

\* a in b, for two strings
Contains(b, a) ==
    \E i \in 1..(Len(b) - Len(a) + 1) : SubSeq(b, i, i + Len(a) - 1) = a

\* urlparse(url).netloc: what follows the first "//", up to the next
\* "/", "?" or "#"; empty when the URL has no "//".
netloc(url) ==
    LET starts == {i \in 1..(Len(url) - 1) : SubSeq(url, i, i + 1) = "//"} IN
    IF starts = {} THEN ""
    ELSE LET s == 2 + CHOOSE i \in starts : \A j \in starts : i <= j
             ends == {j \in s..Len(url) : SubSeq(url, j, j) \in {"/", "?", "#"}}
             e == IF ends = {} THEN Len(url)
                  ELSE (CHOOSE j \in ends : \A k \in ends : j <= k) - 1
         IN SubSeq(url, s, e)

\* A source document is a sequence of nodes: runs of text, and tags that
\* carry an href or a src attribute.
Text(value) == [attr |-> "", value |-> value]
Tag(attr, value) == [attr |-> attr, value |-> value]

\* An attribute value as it is written in the markup: & is &amp;
RECURSIVE escape(_)
escape(value) ==
    IF value = "" THEN ""
    ELSE (IF SubSeq(value, 1, 1) = "&" THEN "&amp;" ELSE SubSeq(value, 1, 1))
         \o escape(SubSeq(value, 2, Len(value)))

\* resp.text: the markup of a document
RECURSIVE html(_)
html(doc) ==
    IF doc = <<>> THEN ""
    ELSE LET node == Head(doc) IN
         (CASE node.attr = "href" ->
                   "<a href=\"" \o escape(node.value) \o "\">"
            [] node.attr = "src" ->
                   "<img src=\"" \o escape(node.value) \o "\">"
            [] OTHER -> node.value)
         \o html(Tail(doc))

\* _source_mentions_target(source_body, target_url), source_body being
\* html(doc): BeautifulSoup gives the tags of doc back, the attribute
\* values unescaped.
source_mentions_target(doc, target_url) ==
    \/ \E i \in 1..Len(doc) :
         doc[i].attr = "href" /\ doc[i].value = target_url
    \/ \E i \in 1..Len(doc) :
         doc[i].attr = "src" /\ doc[i].value = target_url
    \/ Contains(html(doc), target_url)

\* requests.get(source): the answer of the source for a parse of target
Fetched(status_code, doc, target) ==
    [status_code |-> status_code,
     mentions_target |-> source_mentions_target(doc, target)]

\* Response.raise_for_status(): client and server errors raise
raise_for_status(status_code) == 400 <= status_code /\ status_code < 600

parse(source, target, resp) ==
    IF source = "" \/ target = "" THEN ValueError
    ELSE IF base_url # "" /\ netloc(target) # netloc(base_url) THEN ValueError
    ELSE IF resp.status_code \in {404, 410} THEN WebmentionGone
    ELSE IF raise_for_status(resp.status_code) THEN HTTPError
    ELSE IF ~resp.mentions_target THEN WebmentionGone
    ELSE Ok

\* The microformats of a page as mf2py.parse returns them: items with a type,
\* properties and children; a property is a list of values, each a string
\* or an embedded item (a dict) carrying a url. A property that is absent
\* is the empty list.
Str(x) == <<"str", x>>
Dict(x) == <<"dict", x>>

MentionProps ==
    <<"like-of", "repost-of", "bookmark-of", "in-reply-to", "follow-of">>

PropNames == {MentionProps[i] : i \in 1..Len(MentionProps)} \cup {"rsvp"}

Item(type, properties, children) ==
    [type |-> type, properties |-> properties, children |-> children]

\* _first_str of a property: the first value if it is a string, its
\* value/url if it is a dict and that is not empty
first_str(value) ==
    IF value = <<>> THEN None
    ELSE IF value[1][1] = "dict" /\ value[1][2] = "" THEN None
    ELSE Some(value[1][2])

\* any(isinstance(x, str) and x == target_url for x in values)
any_is(values, target_url) ==
    \E i \in 1..Len(values) : values[i] = Str(target_url)

\* The dataclass with the mention type and the raw name it came from
TypedMention(m, mention_type, mention_type_raw) ==
    [source |-> m.source, target |-> m.target, direction |-> m.direction,
     title |-> m.title, published |-> m.published, status |-> m.status,
     mention_type |-> mention_type, mention_type_raw |-> mention_type_raw,
     metadata |-> m.metadata,
     created_at |-> m.created_at, updated_at |-> m.updated_at]

\* in-reply-to tested first
ReplyFirst == <<4, 1, 2, 3, 5>>

\* The order in which _infer_mention_type_from_entry tests the properties
InferOrder == <<1, 2, 3, 4, 5>>

RECURSIVE first_match(_, _, _, _)
first_match(order, i, props, target_url) ==
    IF i > Len(order) THEN None
    ELSE IF any_is(props[MentionProps[order[i]]], target_url)
         THEN Some(MentionProps[order[i]])
         ELSE first_match(order, i + 1, props, target_url)

infer_mention_type_from_entry(mention, props, target_url) ==
    IF mention.mention_type # UNKNOWN THEN mention
    ELSE LET found == first_match(InferOrder, 1, props, target_url)
             rsvp == first_str(props["rsvp"])
             raw == IF found # None THEN found[1]
                    ELSE IF rsvp # None /\ rsvp # Some("") THEN "rsvp"
                    ELSE "mention"
         IN  [mention EXCEPT !.mention_type_raw = Some(raw),
                             !.mention_type = from_raw(raw)]

\* _extract_h_entry: the first top-level h-entry, else the first h-entry
\* among the children of the items
RECURSIVE first_h_entry(_, _)
first_h_entry(items, i) ==
    IF i > Len(items) THEN None
    ELSE IF items[i].type = "h-entry" THEN Some(items[i])
    ELSE first_h_entry(items, i + 1)

RECURSIVE first_child_h_entry(_, _)
first_child_h_entry(items, i) ==
    IF i > Len(items) THEN None
    ELSE IF first_h_entry(items[i].children, 1) # None
         THEN first_h_entry(items[i].children, 1)
         ELSE first_child_h_entry(items, i + 1)

extract_h_entry(items) ==
    IF first_h_entry(items, 1) # None THEN first_h_entry(items, 1)
    ELSE first_child_h_entry(items, 1)

\* _parse_source_payload, as far as the mention type goes: _fill_from_h_entry
\* when the page has an h-entry; _fill_from_html_fallbacks and the excerpt
\* leave the type alone.
parse_source_payload(mention, items, target_url) ==
    LET entry == extract_h_entry(items)
    IN  IF entry # None
        THEN infer_mention_type_from_entry(mention, entry[1].properties,
                                           target_url)
        ELSE mention

\* What parse returns once the source has passed the checks
parsed_mention(source, target, items) ==
    parse_source_payload(
        TypedMention(NewWebmention(source, target, INCOMING), UNKNOWN, None),
        items, target)

\* ------------------------------------------------------------------------
\* Incoming processor (handlers/_incoming.py)
\* ------------------------------------------------------------------------
Entry(op, by, status, ok) == [op |-> op, by |-> by, status |-> status, ok |-> ok]

Idle ==
    [pc |-> "idle", source |-> "", target |-> "",
     mention |-> NewWebmention("", "", INCOMING), parsed_status |-> CONFIRMED,
     outcome |-> "none", had_row |-> FALSE, log |-> <<>>, result |-> "none"]

\* parse, then mention.status = init_mention_status. outcome and had_row
\* record, for the properties, what the parser answered and whether the
\* key was stored when the request came in.
IncomingParse(source, target, resp, pstatus, ppublished) ==
    /\ incoming.pc \in {"idle", "done"}
    /\ LET outcome == parse(source, target, resp) IN
       /\ outcome # Ok => pstatus = CONFIRMED /\ ppublished = None
       /\ incoming' =
            [pc |-> CASE outcome = Ok -> "store"
                      [] outcome = WebmentionGone -> "delete"
                      [] OTHER -> "done",
             source |-> source, target |-> target,
             mention |-> IF outcome = Ok
                         THEN Webmention(source, target, INCOMING,
                                         init_mention_status, ppublished)
                         ELSE NewWebmention(source, target, INCOMING),
             parsed_status |-> pstatus,
             outcome |-> outcome,
             had_row |-> \E r \in table :
                           Key(r) = <<source, target, INCOMING>>,
             log |-> <<>>,
             result |-> IF outcome \in {Ok, WebmentionGone}
                        THEN "none" ELSE outcome]
    /\ UNCHANGED <<dbVars, watcherVars, table, handlerVars, pureVars, webVars, calls, tasks>>

\* storage.store_webmention(mention); a storage error propagates
IncomingStore ==
    /\ incoming.pc = "store"
    /\ LET r == store_webmention(table, incoming.mention, utcnow) IN
       /\ table' = r.table
       /\ incoming' =
            [incoming EXCEPT
               !.pc = IF r.ok THEN "processed" ELSE "done",
               !.log = Append(@, Entry("store", "processor",
                                       incoming.mention.status, r.ok)),
               !.result = IF r.ok THEN @ ELSE IntegrityError]
    /\ UNCHANGED <<dbVars, watcherVars, handlerVars, pureVars, webVars, calls, tasks>>

\* self._on_mention_processed(mention): the wrapped user callback
IncomingProcessed(behaviour) ==
    /\ incoming.pc = "processed"
    /\ ~on_mention_processed => behaviour = Return
    /\ LET w == on_mention_callback_wrapper(on_mention_processed, behaviour)
           restore == w.invoked /\ behaviour \in {StoreConfirmed, StoreDeleted}
           m == IF restore
                THEN [incoming.mention EXCEPT
                        !.status = IF behaviour = StoreConfirmed
                                   THEN CONFIRMED ELSE DELETED]
                ELSE incoming.mention
           r == store_webmention(table, m, utcnow)
       IN
       /\ table' = IF restore THEN r.table ELSE table
       /\ incoming' =
            [incoming EXCEPT
               !.pc = "done",
               !.mention = m,
               !.log = IF ~w.invoked THEN @
                       ELSE IF restore
                       THEN @ \o <<Entry("on_mention_processed", "processor",
                                         incoming.mention.status, TRUE),
                                   Entry("store", "callback", m.status, r.ok)>>
                       ELSE Append(@, Entry("on_mention_processed", "processor",
                                            incoming.mention.status,
                                            behaviour # Raise)),
               !.result = IF w.raised THEN CallbackError ELSE Ok]
    /\ UNCHANGED <<dbVars, watcherVars, handlerVars, pureVars, webVars, calls, tasks>>

\* except WebmentionGone: storage.delete_webmention(source, target, IN)
IncomingDelete ==
    /\ incoming.pc = "delete"
    /\ table' = delete_webmention(table, incoming.source, incoming.target,
                                  INCOMING)
    /\ incoming' =
         [incoming EXCEPT
            !.pc = "deleted",
            !.log = Append(@, Entry("delete", "processor",
                                    incoming.mention.status, TRUE))]
    /\ UNCHANGED <<dbVars, watcherVars, handlerVars, pureVars, webVars, calls, tasks>>

\* self._on_mention_deleted(mention), then the WebmentionGone reaches the caller
IncomingDeleted(behaviour) ==
    /\ incoming.pc = "deleted"
    /\ ~on_mention_deleted => behaviour = Return
    /\ LET w == on_mention_callback_wrapper(on_mention_deleted, behaviour) IN
       incoming' =
         [incoming EXCEPT
            !.pc = "done",
            !.log = IF ~w.invoked THEN @
                    ELSE Append(@, Entry("on_mention_deleted", "processor",
                                         incoming.mention.status,
                                         behaviour # Raise)),
            !.result = IF w.raised THEN CallbackError ELSE WebmentionGone]
    /\ UNCHANGED <<dbVars, watcherVars, table, handlerVars, pureVars, webVars, calls, tasks>>

\* ------------------------------------------------------------------------
\* Outgoing processor (handlers/_outgoing.py)
\* ------------------------------------------------------------------------
\* What the network answers for one target: discovery finds no endpoint,
\* discovery's GET fails, the POST to the endpoint fails or answers an error
\* status, the POST answers success.
NoEndpoint == "no_endpoint"
FetchFailure == "fetch_failure"
PostError == "post_error"
PostOk == "post_ok"
NetOutcomes == {NoEndpoint, FetchFailure, PostError, PostOk}

\* _discover_webmention_endpoint: the endpoint, or None on no match and on
\* fetch failure.
discover_webmention_endpoint(net) ==
    IF net \in {NoEndpoint, FetchFailure} THEN None ELSE <<"endpoint">>

\* _notify_target(source, target): without an endpoint it returns without a
\* POST; otherwise it POSTs and raise_for_status() may raise.
notify_target(net) ==
    IF discover_webmention_endpoint(net) = None
    THEN [raised |-> FALSE, log |-> <<"discover">>]
    ELSE [raised |-> net = PostError,
          log |-> <<"discover", IF net = PostError THEN "post_error"
                                ELSE "post_ok">>]

\* try: ... except Exception: log. Nothing raised inside leaves the task.
except_Exception(raised) == FALSE

LoadPreviousWithoutTry(tbl, source_url, retrieve_exc) ==
    [raised |-> retrieve_exc,
     prev |-> IF retrieve_exc THEN {}
              ELSE {m.target :
                      m \in retrieve_webmentions(tbl, source_url, OUTGOING)}]

\* The previous targets: storage.retrieve_webmentions(source_url, OUT); an
\* exception of the storage is logged and the previous set is empty.
LoadPrevious(tbl, source_url, retrieve_exc) ==
    [raised |-> FALSE,
     prev |-> IF retrieve_exc THEN {}
              ELSE {m.target :
                      m \in retrieve_webmentions(tbl, source_url, OUTGOING)}]

AddedMinusPrevious(now, prev) == now \ prev

\* The targets handed to _notify_added: every target of the current text.
Added(now, prev) == now

\* The targets handed to _notify_removed.
Removed(now, prev) == prev \ now

Task(call, kind, source, target) ==
    [call |-> call, kind |-> kind, source |-> source, target |-> target,
     pc |-> "notify", net |-> "none", log |-> <<>>, escaped |-> FALSE]

\* process_outgoing_webmentions, first half: the targets of the text
\* (now) and the previous targets. sent records, for the properties, the
\* targets of the stored outgoing mentions of this source at that moment.
StartCall(source_url, now, retrieve_exc) ==
    /\ \A i \in 1..Len(calls) : calls[i].pc # "retrieved"
    /\ LET p == LoadPrevious(table, source_url, retrieve_exc) IN
       calls' = Append(calls,
                  [source |-> source_url, now |-> now, prev |-> p.prev,
                   retrieve_exc |-> retrieve_exc,
                   sent |-> {r.target : r \in {x \in table :
                                /\ x.source = source_url
                                /\ x.direction = OUTGOING}},
                   pc |-> IF p.raised THEN "raised" ELSE "retrieved"])

OutgoingStart(source_url, now, retrieve_exc) ==
    /\ Len(calls) < MaxCalls
    /\ StartCall(source_url, now, retrieve_exc)
    /\ UNCHANGED <<dbVars, watcherVars, table, handlerVars, pureVars, webVars, incoming, tasks>>

\* process_outgoing_webmentions, second half: one task per added and per
\* removed target is submitted to the pool, then the call returns.
OutgoingDispatch(i) ==
    /\ calls[i].pc = "retrieved"
    /\ tasks' = tasks
         \cup {Task(i, "added", calls[i].source, t) :
                 t \in Added(calls[i].now, calls[i].prev)}
         \cup {Task(i, "removed", calls[i].source, t) :
                 t \in Removed(calls[i].now, calls[i].prev)}
    /\ calls' = [calls EXCEPT ![i].pc = "dispatched"]
    /\ UNCHANGED <<dbVars, watcherVars, table, handlerVars, pureVars, webVars, incoming>>

Replace(t, u) == (tasks \ {t}) \cup {u}

\* _notify_added: the call of _notify_target; the store follows unless
\* _notify_target raised, and what it raised is logged.
AddedNotify(t, net) ==
    /\ t \in tasks
    /\ t.kind = "added"
    /\ t.pc = "notify"
    /\ LET n == notify_target(net) IN
       tasks' = Replace(t,
                  [t EXCEPT !.net = net,
                            !.log = @ \o n.log,
                            !.escaped = except_Exception(n.raised),
                            !.pc = IF n.raised THEN "done" ELSE "store"])
    /\ UNCHANGED <<dbVars, watcherVars, table, handlerVars, pureVars, webVars, incoming, calls>>

\* _notify_removed: the call of _notify_target; the delete follows whatever
\* the outcome.
RemovedNotify(t, net) ==
    /\ t \in tasks
    /\ t.kind = "removed"
    /\ t.pc = "notify"
    /\ LET n == notify_target(net) IN
       tasks' = Replace(t,
                  [t EXCEPT !.net = net,
                            !.log = @ \o n.log,
                            !.escaped = except_Exception(n.raised),
                            !.pc = "delete"])
    /\ UNCHANGED <<dbVars, watcherVars, table, handlerVars, pureVars, webVars, incoming, calls>>

\* _notify_added: storage.store_webmention(Webmention(source, target, OUT));
\* an exception is logged.
AddedStore(t) ==
    /\ t \in tasks
    /\ t.pc = "store"
    /\ LET r == store_webmention(table,
                  NewWebmention(t.source, t.target, OUTGOING),
                  utcnow) IN
       /\ table' = r.table
       /\ tasks' = Replace(t,
                     [t EXCEPT !.pc = "done",
                               !.log = Append(@, IF r.ok THEN "store_ok"
                                                 ELSE "store_failed"),
                               !.escaped = except_Exception(~r.ok)])
    /\ UNCHANGED <<dbVars, watcherVars, handlerVars, pureVars, webVars, incoming, calls>>

\* _notify_removed: storage.delete_webmention(source, target, OUT)
RemovedDelete(t) ==
    /\ t \in tasks
    /\ t.pc = "delete"
    /\ table' = delete_webmention(table, t.source, t.target, OUTGOING)
    /\ tasks' = Replace(t, [t EXCEPT !.pc = "callback",
                                     !.log = Append(@, "delete")])
    /\ UNCHANGED <<dbVars, watcherVars, handlerVars, pureVars, webVars, incoming, calls>>

\* _notify_removed: self._on_mention_deleted(mention)
RemovedCallback(t, behaviour) ==
    /\ t \in tasks
    /\ t.pc = "callback"
    /\ ~on_mention_deleted => behaviour = Return
    /\ LET w == on_mention_callback_wrapper(on_mention_deleted, behaviour) IN
       tasks' = Replace(t,
                  [t EXCEPT !.pc = "done",
                            !.log = IF ~w.invoked THEN @
                                    ELSE IF behaviour = Raise
                                    THEN Append(@, "on_mention_deleted_raised")
                                    ELSE Append(@, "on_mention_deleted"),
                            !.escaped = w.raised])
    /\ UNCHANGED <<dbVars, watcherVars, table, handlerVars, pureVars, webVars, incoming, calls>>

\* ------------------------------------------------------------------------
\* Calls made on the storage directly (DbWebmentionsStorage)
\* ------------------------------------------------------------------------
\* db: the last call. fresh: the table had no row for the key when the call
\* was made.
NoCall ==
    [op |-> "none", mention |-> NewWebmention("", "", INCOMING),
     ok |-> TRUE, fresh |-> TRUE]

\* storage.store_webmention(m)
DbStore(m) ==
    /\ LET r == store_webmention(table, m, utcnow) IN
       /\ table' = r.table
       /\ db' = [op |-> "store", mention |-> m, ok |-> r.ok,
                 fresh |-> Existing(table, m) = {}]
    /\ UNCHANGED <<handlerVars, pureVars, webVars, incoming, calls, tasks, clock, sessions, watcherVars>>

\* storage.delete_webmention(source, target, direction)
DbDelete(source, target, direction) ==
    /\ table' = delete_webmention(table, source, target, direction)
    /\ db' = [op |-> "delete",
              mention |-> NewWebmention(source, target, direction),
              ok |-> TRUE,
              fresh |-> Existing(table,
                          NewWebmention(source, target, direction)) = {}]
    /\ UNCHANGED <<handlerVars, pureVars, webVars, incoming, calls, tasks, clock, sessions, watcherVars>>

\* Time passes.
Tick ==
    /\ clock < MaxClock
    /\ clock' = clock + 1
    /\ UNCHANGED <<table, handlerVars, pureVars, webVars, incoming, calls, tasks, db, sessions, watcherVars>>

\* store_webmention step by step, for calls that run in threads of their
\* own, each with its own session. Every commit is one step of the database.
MaxSessions == 2
Sessions == 1..MaxSessions

\* stale: the row read by the SELECT was deleted since
NoSession ==
    [pc |-> "idle", mention |-> NewWebmention("", "", INCOMING),
     existing |-> None, stale |-> FALSE, raised |-> ""]

StaleDataError == "StaleDataError"

SessionVars == <<handlerVars, pureVars, webVars, incoming, calls, tasks, clock,
                 db, watcherVars>>

\* A thread calls storage.store_webmention(m)
SessionBegin(s, m) ==
    /\ sessions[s].pc = "idle"
    /\ sessions' = [sessions EXCEPT ![s] = [NoSession EXCEPT !.pc = "insert",
                                                             !.mention = m]]
    /\ UNCHANGED <<table, SessionVars>>

\* session.add(from_webmention(mention)); session.commit(); IntegrityError
\* is followed by a rollback
SessionInsert(s) ==
    /\ sessions[s].pc = "insert"
    /\ LET row == from_webmention(sessions[s].mention, utcnow) IN
       IF ~NotNullViolation(row) /\ ~UniqueViolation(table, row)
       THEN /\ table' = table \cup {row}
            /\ sessions' = [sessions EXCEPT ![s].pc = "done"]
       ELSE /\ table' = table
            /\ sessions' = [sessions EXCEPT ![s].pc = "select"]
    /\ UNCHANGED SessionVars

\* existing = session.query(...).one_or_none()
SessionSelect(s) ==
    /\ sessions[s].pc = "select"
    /\ LET found == Existing(table, sessions[s].mention) IN
       sessions' = [sessions EXCEPT
                      ![s].pc = IF found = {} THEN "insert_again" ELSE "update",
                      ![s].existing = IF found = {} THEN None
                                      ELSE Some(CHOOSE r \in found : TRUE)]
    /\ UNCHANGED <<table, SessionVars>>

\* if existing is None: session.add(...); session.commit(), outside the
\* inner try: an IntegrityError leaves the call
SessionInsertAgain(s) ==
    /\ sessions[s].pc = "insert_again"
    /\ LET row == from_webmention(sessions[s].mention, utcnow) IN
       IF ~NotNullViolation(row) /\ ~UniqueViolation(table, row)
       THEN /\ table' = table \cup {row}
            /\ sessions' = [sessions EXCEPT ![s].pc = "done"]
       ELSE /\ table' = table
            /\ sessions' = [sessions EXCEPT ![s].pc = "done",
                                            ![s].raised = IntegrityError]
    /\ UNCHANGED SessionVars

\* The columns are set on the row that was read and committed; the UPDATE
\* of a row that is gone matches nothing, which the commit raises.
SessionUpdate(s) ==
    /\ sessions[s].pc = "update"
    /\ IF sessions[s].stale
       THEN /\ table' = table
            /\ sessions' = [sessions EXCEPT ![s].pc = "done",
                                            ![s].raised = StaleDataError]
       ELSE LET current == CHOOSE r \in Existing(table, sessions[s].mention) :
                             TRUE
                updated == UpdateRow(current, sessions[s].mention, utcnow)
            IN  IF NotNullViolation(updated)
                THEN /\ table' = table
                     /\ sessions' = [sessions EXCEPT
                                       ![s].pc = "done",
                                       ![s].raised = IntegrityError]
                ELSE /\ table' = (table \ {current}) \cup {updated}
                     /\ sessions' = [sessions EXCEPT ![s].pc = "done"]
    /\ UNCHANGED SessionVars

\* A thread calls storage.delete_webmention(source, target, direction): one
\* DELETE and its commit. The rows that other sessions have read are gone.
SessionDelete(source, target, direction) ==
    /\ table' = delete_webmention(table, source, target, direction)
    /\ sessions' =
         [s \in Sessions |->
            IF /\ sessions[s].pc = "update"
               /\ Key(sessions[s].mention) = <<source, target, direction>>
            THEN [sessions[s] EXCEPT !.stale = TRUE]
            ELSE sessions[s]]
    /\ UNCHANGED SessionVars

\* Mentions of one key that can be stored (they carry a published time)
SessionMentions ==
    {[Webmention("u1", "u2", INCOMING, CONFIRMED, SomeDate) EXCEPT
        !.title = title] : title \in {None, <<"A">>}}

\* The mentions stored: for one key an untyped mention without text or a
\* reply with text, with every combination of the other fields, and a mention
\* with fixed fields for each other key.
DbKeys == {<<"u1", "u2", INCOMING>>, <<"u2", "u2", INCOMING>>,
           <<"u1", "u2", OUTGOING>>}

\* The metadata of a mention parsed from an h-entry
Mf2Meta == "{mf2}"

DbMentions ==
    {[Webmention("u1", "u2", INCOMING, status, published) EXCEPT
        !.title = title,
        !.mention_type = IF title = None THEN UNKNOWN ELSE REPLY,
        !.metadata = IF title = None THEN EmptyMeta ELSE Mf2Meta,
        !.created_at = created_at] :
       status \in {PENDING, CONFIRMED},
       published \in {None, datetime(0, UTC), datetime(0, East)},
       title \in {None, <<"A">>},
       created_at \in {None, datetime(1, UTC)}}
    \cup {Webmention(k[1], k[2], k[3], CONFIRMED, SomeDate) : k \in DbKeys}

\* ------------------------------------------------------------------------
\* Filesystem watcher (storage/adapters/file/_watcher.py)
\* ------------------------------------------------------------------------
throttle_seconds == 2      \* the debounce interval
JoinTimeout == 5           \* observer.join(timeout=5)

\* A path is <<directory, file name, extension>>; the empty path has all
\* three empty.
root_dir == "/root"
EmptyPath == <<"", "", "">>
AMd == <<root_dir, "a", ".md">>
BMd == <<root_dir, "b", ".md">>
Paths == {EmptyPath, AMd, BMd, <<root_dir, "c", ".txt">>,
          <<"/outside", "a", ".md">>}

extensions == {".md"}

EventTypes == {"created", "modified", "deleted"}

NoExtensionCheck(abs_path) == abs_path # EmptyPath /\ abs_path[1] = root_dir

\* The filter of _enqueue_fs_event: an empty path, a path outside the root
\* directory and a path without a monitored extension are dropped.
Accepts(abs_path) ==
    /\ abs_path # EmptyPath
    /\ abs_path[1] = root_dir
    /\ abs_path[3] \in extensions

\* _enqueue_fs_event(event_type, path): the queue after the call
enqueue_fs_event(queue, event_type, path) ==
    IF Accepts(path) THEN Append(queue, <<event_type, path>>) ELSE queue

\* The handler's callbacks: on_created, on_modified and on_deleted enqueue
\* the source path; on_moved enqueues deleted(src), then created(dest).
RawEvents ==
    [type : EventTypes, src_path : Paths, dest_path : {EmptyPath}]
    \cup [type : {"moved"}, src_path : {AMd, <<root_dir, "c", ".txt">>},
          dest_path : {BMd, <<"/outside", "a", ".md">>}]

Decompose(ev) ==
    IF ev.type = "moved"
    THEN <<(<<"deleted", ev.src_path>>), (<<"created", ev.dest_path>>)>>
    ELSE <<(<<ev.type, ev.src_path>>)>>

RECURSIVE EnqueueAll(_, _)
EnqueueAll(queue, evs) ==
    IF evs = <<>> THEN queue
    ELSE EnqueueAll(enqueue_fs_event(queue, Head(evs)[1], Head(evs)[2]),
                    Tail(evs))

\* accepted[p]: at and type of the last accepted event on p; burst, whether
\* that event came less than the debounce interval after the one before it;
\* calls, the number of sink calls made for p since the worker took that
\* event from the queue.
RECURSIVE NoteAccepted(_, _, _)
NoteAccepted(acc, evs, now) ==
    IF evs = <<>> THEN acc
    ELSE LET type == Head(evs)[1]
             path == Head(evs)[2]
         IN  NoteAccepted(IF Accepts(path)
                          THEN [q \in DOMAIN acc \cup {path} |->
                                  IF q = path
                                  THEN [at |-> now, type |-> type, calls |-> 0,
                                        burst |-> /\ path \in DOMAIN acc
                                                  /\ now - acc[path].at
                                                       < throttle_seconds]
                                  ELSE acc[q]]
                          ELSE acc,
                          Tail(evs), now)

Running == watch_observer # None

\* The paths of the events that a stop() drops from the queue.
QueuedPaths(queue) == {queue[k][2] : k \in DOMAIN queue}

NoObserver ==
    [scheduled |-> <<>>, started |-> FALSE, stopped |-> FALSE,
     joined |-> <<>>]

StartAlways(handle) == FALSE

\* start(): if self._watch_observer is not None: return
AlreadyStarted(handle) == handle # None

\* start(): nothing happens when already started or when the root directory
\* is missing; otherwise an observer is scheduled on the root directory and
\* started, and the worker thread is started.
Start(isdir) ==
    /\ watcher_call' = IF isdir THEN "start" ELSE "start_missing"
    /\ IF AlreadyStarted(watch_observer) \/ ~isdir
       THEN UNCHANGED <<watch_observer, watch_thread, observer,
                        observers_alive, workers_alive>>
       ELSE /\ observer' = [scheduled |-> <<root_dir>>, started |-> TRUE,
                            stopped |-> FALSE, joined |-> <<>>]
            /\ observers_alive' = observers_alive + 1
            /\ watch_observer' = <<"observer">>
            /\ workers_alive' = workers_alive + 1
            /\ watch_thread' = <<"thread">>
    /\ UNCHANGED <<storeVars, monotonic, fs_event, watch_queue, debounceVars,
                   accepted>>

\* The most worker threads that are let outlive their stop()
MaxWorkers == 2

\* stop(): nothing happens when not started; otherwise the observer is
\* stopped and joined, the worker is told to stop and joined, the queued
\* events are dropped and both handles are cleared. The join of the worker
\* returns when the worker has ended or, for a worker that is busy, when
\* the timeout is over: that worker is still alive.
StopJoin(timed_out) ==
    /\ watcher_call' = "stop"
    /\ IF watch_observer = None
       THEN UNCHANGED <<watch_observer, watch_thread, observer,
                        observers_alive, workers_alive, watch_queue>>
       ELSE /\ timed_out => workers_alive < MaxWorkers
            /\ observer' = [observer EXCEPT
                              !.stopped = TRUE,
                              !.joined = Append(@, JoinTimeout)]
            /\ observers_alive' = observers_alive - 1
            /\ workers_alive' = IF timed_out THEN workers_alive
                                ELSE workers_alive - 1
            /\ watch_observer' = None
            /\ watch_thread' = None
            /\ watch_queue' = <<>>
    /\ accepted' = [q \in DOMAIN accepted \ QueuedPaths(watch_queue) |->
                      accepted[q]]
    /\ UNCHANGED <<storeVars, monotonic, fs_event, debounceVars>>

\* stop() with a worker that ends in time
Stop == StopJoin(FALSE)

\* A worker that outlived its stop() ends.
WorkerExit ==
    /\ workers_alive > (IF watch_thread = None THEN 0 ELSE 1)
    /\ workers_alive' = workers_alive - 1
    /\ UNCHANGED <<storeVars, monotonic, watcher_call, watch_observer,
                   watch_thread, observer, observers_alive, fs_event,
                   watch_queue, debounceVars, accepted>>

\* The observer reports a raw event to the handler, which enqueues. No
\* event is reported after the time last.
FsEventUntil(ev, last) ==
    /\ Running
    /\ watch_queue = <<>>
    /\ monotonic <= last
    /\ fs_event' = ev
    /\ watch_queue' = EnqueueAll(watch_queue, Decompose(ev))
    /\ accepted' = NoteAccepted(accepted, Decompose(ev), monotonic)
    /\ UNCHANGED <<storeVars, monotonic, lifecycleVars, debounceVars>>

FsEvent(ev) == FsEventUntil(ev, MaxTime - throttle_seconds)

\* The worker takes one event from the queue and notes it.
WorkerGet ==
    /\ watch_thread # None
    /\ watch_queue # <<>>
    /\ LET event_type == Head(watch_queue)[1]
           path == Head(watch_queue)[2]
       IN  /\ pending_paths' = pending_paths \cup {path}
           /\ last_event_at' =
                [q \in DOMAIN last_event_at \cup {path} |->
                   IF q = path THEN monotonic ELSE last_event_at[q]]
           /\ last_event_type' =
                [q \in DOMAIN last_event_type \cup {path} |->
                   IF q = path THEN event_type ELSE last_event_type[q]]
    /\ watch_queue' = Tail(watch_queue)
    /\ UNCHANGED <<storeVars, monotonic, lifecycleVars, fs_event,
                   last_processed_at, on_change, sink_raised, accepted>>

ADDED == "added"
EDITED == "edited"

\* _build_change(event_type, abs_path): DELETED for a deleted event and for
\* a file that is no longer there, else ADDED for created and EDITED for
\* modified.
build_change(event_type, abs_path, isfile) ==
    [change_type |-> IF event_type = "deleted" \/ ~isfile THEN DELETED
                     ELSE IF event_type = "created" THEN ADDED ELSE EDITED,
     path |-> abs_path]

DueWithoutQuiet(now) ==
    {p \in pending_paths : now - last_processed_at >= throttle_seconds}

DueWithoutGate(now) ==
    {p \in pending_paths : now - last_event_at[p] >= throttle_seconds}

\* Nothing is delivered when several paths are due at once
DueAlone(now) ==
    LET due == {p \in pending_paths :
                  /\ now - last_event_at[p] >= throttle_seconds
                  /\ now - last_processed_at >= throttle_seconds}
    IN  IF Cardinality(due) > 1 THEN {} ELSE due

\* The pending paths a flush at time now delivers.
Due(now) ==
    {p \in pending_paths :
       /\ now - last_event_at[p] >= throttle_seconds
       /\ now - last_processed_at >= throttle_seconds}

RECURSIVE Deliver(_, _, _)
Deliver(log, due, isfile) ==
    IF due = {} THEN log
    ELSE LET p == CHOOSE q \in due : TRUE IN
         Deliver(Append(log, build_change(last_event_type[p], p, isfile[p])),
                 due \ {p}, isfile)

\* The flush ends at the first sink call that raises
UntilRaise(due, raises) == IF due \cap raises = {} THEN due ELSE {}

\* try: self._on_change(change) / except Exception: the flush goes through
\* every due path whether its sink call raises or not
Handled(due, raises) == due

\* _flush_debounced(): every due path is delivered to the sink once, with
\* the change built from its last event type, and its pending state is
\* cleared; the sink raises for the paths in raises.
Flush(isfile, raises) ==
    /\ watch_thread # None
    /\ LET due == Due(monotonic)
           handled == Handled(due, raises)
       IN
       /\ due # {}
       /\ on_change' = Deliver(<<>>, due, isfile)
       /\ sink_raised' = due \cap raises
       /\ pending_paths' = pending_paths \ handled
       /\ last_event_at' = [q \in DOMAIN last_event_at \ handled |->
                              last_event_at[q]]
       /\ last_event_type' = [q \in DOMAIN last_event_type \ handled |->
                                last_event_type[q]]
       /\ last_processed_at' = monotonic
       /\ accepted' = [q \in DOMAIN accepted |->
                         IF q \in due /\ q \notin QueuedPaths(watch_queue)
                         THEN [accepted[q] EXCEPT !.calls = @ + 1]
                         ELSE accepted[q]]
    /\ UNCHANGED <<storeVars, monotonic, lifecycleVars, fs_event, watch_queue>>

\* A flush whose sink calls all return
FlushDebounced(isfile) == Flush(isfile, {})

\* A second passes, up to the time last; the worker has taken what was
\* queued.
PassUntil(last) ==
    /\ monotonic < last
    /\ watch_queue = <<>>
    /\ monotonic' = monotonic + 1
    /\ UNCHANGED <<storeVars, lifecycleVars, fs_event, watch_queue,
                   debounceVars, accepted>>

Pass == PassUntil(MaxTime)

NoEvent == [type |-> "none", src_path |-> EmptyPath, dest_path |-> EmptyPath]

\* FileSystemWatcher(root_dir, on_change, extensions, throttle_seconds)
WatcherInit ==
    /\ monotonic = throttle_seconds
    /\ watcher_call = "none"
    /\ watch_observer = None
    /\ watch_thread = None
    /\ observer = NoObserver
    /\ observers_alive = 0
    /\ workers_alive = 0
    /\ fs_event = NoEvent
    /\ watch_queue = <<>>
    /\ pending_paths = {}
    /\ last_event_at = <<>>
    /\ last_event_type = <<>>
    /\ last_processed_at = 0
    /\ on_change = <<>>
    /\ sink_raised = {}
    /\ accepted = <<>>

\* ------------------------------------------------------------------------
\* The bound route (server/adapters/flask.py)
\* ------------------------------------------------------------------------
WebmentionException == "WebmentionException"

\* The exceptions `except WebmentionException` catches
WebmentionExceptions == {WebmentionException, WebmentionGone}

NoRequest ==
    [pc |-> "none", source |-> "", target |-> "", get_status |-> 200,
     get_doc |-> <<>>, sender |-> <<>>, response |-> <<>>]

\* A POST of source and target reaches the route (a missing form field
\* reads as empty); get_status and get_doc are what the source answers to
\* a GET while the request is served, sender the task that sent the POST,
\* if one of the sending server did. The processor starts a new call.
Receive(source, target, status_code, doc, sender) ==
    /\ http.pc # "request"
    /\ http' = [pc |-> "request", source |-> source, target |-> target,
                get_status |-> status_code, get_doc |-> doc,
                sender |-> sender, response |-> <<>>]
    /\ incoming' = Idle

\* A client POSTs to the route.
Post(source, target, status_code, doc) ==
    /\ Receive(source, target, status_code, doc, <<>>)
    /\ UNCHANGED <<dbVars, watcherVars, table, handlerVars, pureVars, file, monitor, app, calls,
                   tasks>>

\* handler.process_incoming_webmention(source, target)
RouteProcess(ppublished) ==
    /\ http.pc = "request"
    /\ incoming.pc = "idle"
    /\ IncomingParse(http.source, http.target,
                     Fetched(http.get_status, http.get_doc, http.target),
                     CONFIRMED, ppublished)

\* The answer of the route for what the processor returned or raised: an
\* exception the route does not catch is the framework's 500.
webmention_route(result) ==
    IF result = Ok THEN <<200, "status", "ok">>
    ELSE IF result \in WebmentionExceptions THEN <<400, "error", result>>
    ELSE <<500, "", "">>

Respond ==
    /\ http.pc = "request"
    /\ incoming.pc = "done"
    /\ http' = [http EXCEPT !.pc = "responded",
                            !.response = webmention_route(incoming.result)]
    /\ UNCHANGED <<dbVars, watcherVars, table, handlerVars, pureVars, file, monitor, app, incoming,
                   calls, tasks>>

\* ------------------------------------------------------------------------
\* The route bound to a FastAPI app (server/adapters/fastapi.py)
\* ------------------------------------------------------------------------
\* FastAPI(): no state, no middleware, no route, no request yet
FastAPI ==
    [endpoints |-> {}, middleware_installed |-> FALSE, routes |-> {},
     post |-> None]

\* bind_webmentions(app, handler, route): the route joins
\* app.state._webmentions_endpoints; a call that finds no middleware
\* installed installs it and returns it; a call that finds it installed
\* goes on to @app.post(route).
bind_webmentions(fastapi, route) ==
    IF ~fastapi.middleware_installed
    THEN [fastapi EXCEPT !.endpoints = @ \cup {route},
                         !.middleware_installed = TRUE]
    ELSE [fastapi EXCEPT !.endpoints = @ \cup {route},
                         !.routes = @ \cup {route}]

BindWebmentions(route) ==
    /\ app' = bind_webmentions(app, route)
    /\ UNCHANGED <<dbVars, watcherVars, table, handlerVars, pureVars, http,
                   file, monitor, incoming, calls, tasks>>

\* A client POSTs source and target to a path of the app: the function
\* registered for the path serves it, and a path without one is answered
\* 404. bound records whether bind_webmentions had been called for the path.
FastApiPost(route, source, target, status_code, doc) ==
    /\ http.pc # "request"
    /\ IF route \in app.routes
       THEN /\ Receive(source, target, status_code, doc, <<>>)
            /\ app' = [app EXCEPT !.post =
                         Some([route |-> route, source |-> source,
                               target |-> target,
                               bound |-> route \in app.endpoints,
                               found |-> TRUE])]
       ELSE /\ app' = [app EXCEPT !.post =
                         Some([route |-> route, source |-> source,
                               target |-> target,
                               bound |-> route \in app.endpoints,
                               found |-> FALSE])]
            /\ UNCHANGED <<http, incoming>>
    /\ UNCHANGED <<dbVars, watcherVars, table, handlerVars, pureVars, file,
                   monitor, calls, tasks>>

\* The answer of the function: HTTPException(status_code=400) for a
\* WebmentionException, {"status": "ok"} after a return
fastapi_webmention(result) ==
    IF result = Ok THEN <<200, "status", "ok">>
    ELSE IF result \in WebmentionExceptions THEN <<400, "detail", result>>
    ELSE <<500, "", "">>

FastApiRespond ==
    /\ http.pc = "request"
    /\ incoming.pc = "done"
    /\ http' = [http EXCEPT !.pc = "responded",
                            !.response = fastapi_webmention(incoming.result)]
    /\ UNCHANGED <<dbVars, watcherVars, table, handlerVars, pureVars, file,
                   monitor, app, incoming, calls, tasks>>

FastApiRoutes == {"/webmention", "/api/webmention"}

\* ------------------------------------------------------------------------
\* Two servers: the monitor of the sending server (FileSystemMonitor,
\* storage/adapters/file/_adapter.py) and the route of the receiving one.
\* The two databases are kept in one table: the sender stores OUT rows
\* only, the receiver IN rows only, and every query names its direction.
\* ------------------------------------------------------------------------
MaxChanges == 2        \* changes of the source file in one behaviour

SenderUrl == "http://a/s"      \* file_to_url_mapper(source file)
ReceiverUrl == "http://b/t"    \* the target page, on the receiving server

\* paced: every change of the file so far was made when all that the
\* changes before it had set off was done.
File(doc, paced) == [exists |-> TRUE, doc |-> doc, paced |-> paced]
NoFile(paced) == [exists |-> FALSE, doc |-> <<>>, paced |-> paced]

\* The source file before the monitor starts: no link.
InitialFile == File(<<Text("initial")>>, TRUE)

\* Nothing is in progress: every call has dispatched its tasks, every task
\* is done and the receiver serves no request.
Quiet ==
    /\ \A i \in 1..Len(calls) : calls[i].pc # "retrieved"
    /\ \A t \in tasks : t.pc = "done"
    /\ http.pc # "request"

\* What the source file is rewritten to.
FileDocs ==
    {<<Text("v1"), Tag("href", ReceiverUrl)>>,
     <<Text("v2"), Tag("href", ReceiverUrl)>>,
     <<Text("no links")>>}

\* The targets the outgoing processor finds in a text: its links.
links(doc) == {doc[i].value : i \in {j \in 1..Len(doc) : doc[j].attr = "href"}}


SourcePath == "/srv/a/source.html"
HTML == "html"

\* ContentChange, as the watcher builds it: a DELETED change has neither
\* text nor format.
ContentChange(change_type, path, text, text_format) ==
    [change_type |-> change_type, path |-> path, text |-> text,
     text_format |-> text_format]

\* file_to_url_mapper
source_url_from_content_path(path) ==
    IF path = SourcePath THEN SenderUrl ELSE ""

\* The arguments of process_outgoing_webmentions in _on_filesystem_change
process_outgoing_args(change) ==
    [source_url |-> source_url_from_content_path(change.path),
     text |-> IF change.change_type = DELETED THEN Some(<<>>)
              ELSE change.text,
     text_format |-> change.text_format]

\* T_now: the links of the text, or without a text those of the page
\* fetched from the source URL.
text_targets(text, page) ==
    IF text = None THEN links(page) ELSE links(text[1])

NoChange ==
    [change |-> ContentChange("none", "", None, None),
     call |-> [source_url |-> "", text |-> None, text_format |-> None]]

\* The source file is written or deleted and the monitor's
\* _on_filesystem_change runs for the change: DELETED processes the
\* source with text = "", any other change with the text of the file.
on_filesystem_change(change_type, doc) ==
    /\ Len(calls) < MaxChanges
    /\ change_type = DELETED => file.exists /\ doc = <<>>
    /\ change_type = ADDED => ~file.exists
    /\ change_type = EDITED => file.exists /\ doc # file.doc
    /\ file' = IF change_type = DELETED THEN NoFile(file.paced /\ Quiet)
               ELSE File(doc, file.paced /\ Quiet)
    /\ LET change == IF change_type = DELETED
                     THEN ContentChange(DELETED, SourcePath, None, None)
                     ELSE ContentChange(change_type, SourcePath, Some(doc),
                                        Some(HTML))
           args == process_outgoing_args(change)
       IN
       /\ monitor' = [change |-> change, call |-> args]
       /\ StartCall(args.source_url, text_targets(args.text, doc), FALSE)
    /\ UNCHANGED <<dbVars, watcherVars, table, handlerVars, pureVars, http, app, incoming,
                   tasks>>

TaskId(t) == <<t.call, t.kind>>

\* _notify_target of a task whose target is the receiver's page: the POST
\* reaches the receiver's route; the receiver's GET of the source is
\* answered with the file as it is, 404 when it is gone.
NotifyPost(t) ==
    /\ t \in tasks
    /\ t.pc = "notify"
    /\ t.target = ReceiverUrl
    /\ ~(http.pc = "responded" /\ http.sender = TaskId(t))
    /\ Receive(t.source, t.target, IF file.exists THEN 200 ELSE 404,
               file.doc, TaskId(t))
    /\ UNCHANGED <<dbVars, watcherVars, table, handlerVars, pureVars, file, monitor, app, calls,
                   tasks>>

\* The receiver processes the request. As in the pages of the source file,
\* a text with the link carries a published time, one without does not.
ReceiverProcess ==
    RouteProcess(IF ReceiverUrl \in links(http.get_doc)
                 THEN SomeDate ELSE None)

\* What _notify_target meets: the answer of the receiver's route for the
\* receiver's page; for a page elsewhere, whose server also binds a route,
\* a POST that succeeds or fails.
Answered(t, net) ==
    IF t.target = ReceiverUrl
    THEN /\ http.pc = "responded"
         /\ http.sender = TaskId(t)
         /\ net = IF http.response[1] = 200 THEN PostOk ELSE PostError
    ELSE net \in {PostOk, PostError}

\* _notify_target returns or raises in the task
Notify(t, net) ==
    /\ Answered(t, net)
    /\ IF t.kind = "added" THEN AddedNotify(t, net) ELSE RemovedNotify(t, net)

\* ------------------------------------------------------------------------
\* Link header of the responses (server/adapters/_common.py, flask.py)
\* ------------------------------------------------------------------------
webmention_link_header_value(endpoint) ==
    "<" \o endpoint \o ">; rel=\"webmention\""

\* The header grows by every value it is handed
append_always(existing, to_add) ==
    IF existing = None THEN Some(to_add)
    ELSE Some(existing[1] \o ", " \o to_add)

\* append_link_header(existing, to_add): a header that is None or empty
\* becomes the value, one that holds the value as a substring is kept
append_link_header(existing, to_add) ==
    IF existing = None \/ existing = Some("") THEN Some(to_add)
    ELSE IF Contains(existing[1], to_add) THEN existing
    ELSE Some(existing[1] \o ", " \o to_add)

startswith(text, prefix) ==
    Len(text) >= Len(prefix) /\ SubSeq(text, 1, Len(prefix)) = prefix

\* content_type.split(";", 1)[0].strip()
RECURSIVE split_semicolon(_, _)
split_semicolon(text, i) ==
    IF i > Len(text) \/ SubSeq(text, i, i) = ";" THEN SubSeq(text, 1, i - 1)
    ELSE split_semicolon(text, i + 1)

RECURSIVE strip(_)
strip(text) ==
    IF text = "" THEN text
    ELSE IF SubSeq(text, 1, 1) = " " THEN strip(SubSeq(text, 2, Len(text)))
    ELSE IF SubSeq(text, Len(text), Len(text)) = " "
         THEN strip(SubSeq(text, 1, Len(text) - 1))
    ELSE text

HttpResponse(content_type, link) == [content_type |-> content_type, link |-> link]

\* for endpoint in app.extensions["webmentions_endpoints"], in the order the
\* set is iterated
RECURSIVE append_endpoints(_, _, _)
append_endpoints(existing, endpoints, i) ==
    IF i > Len(endpoints) THEN existing
    ELSE append_endpoints(
             append_link_header(existing,
                                webmention_link_header_value(endpoints[i])),
             endpoints, i + 1)

\* _webmentions_link_header_after_request(response)
webmentions_link_header_after_request(response, endpoints) ==
    IF response.content_type # None
         /\ startswith(strip(split_semicolon(response.content_type[1], 1)),
                       "text/")
    THEN LET existing == append_endpoints(response.link, endpoints, 1)
         IN  IF existing # None THEN [response EXCEPT !.link = existing]
             ELSE response
    ELSE response

\* ------------------------------------------------------------------------
\* Direct calls of the functions that keep no state
\* ------------------------------------------------------------------------
\* A call that is about to be made has no result yet; Result gives it one.
Call(fn, args) == [fn |-> fn, args |-> args, result |-> None]

NotApplied == Call("", <<>>)

Result(fn, value) ==
    /\ applied.fn = fn
    /\ applied.result = None
    /\ applied' = [applied EXCEPT !.result = Some(value)]

machineVars == <<table, handlerVars, webVars, incoming, calls, tasks, dbVars,
                 watcherVars>>

\* WebmentionsRequestParser._infer_mention_type_from_entry(mention, props,
\* target_url)
InferMentionType ==
    /\ Result("_infer_mention_type_from_entry",
              infer_mention_type_from_entry(applied.args.mention,
                                            applied.args.props,
                                            applied.args.target_url))
    /\ UNCHANGED machineVars

\* The entries the type is inferred from: each property that names a kind
\* of response lists nothing, the target, a URL that only starts like the
\* target, an embedded item for the target, or another URL and the target.
PageUrl == "http://t/x"
NearUrl == "http://t/x/"

ValueLists ==
    {<<>>, <<Str(PageUrl)>>, <<Str(NearUrl)>>, <<Dict(PageUrl)>>,
     <<Str(NearUrl), Str(PageUrl)>>}

RsvpLists == {<<>>, <<Str("yes")>>}

EntryProps ==
    {[n \in PropNames |-> IF n = "rsvp" THEN r ELSE q[n]] :
       q \in [PropNames \ {"rsvp"} -> ValueLists], r \in RsvpLists}

InferCalls ==
    {Call("_infer_mention_type_from_entry",
          [mention |-> TypedMention(NewWebmention("http://s/p", PageUrl,
                                                  INCOMING), t, None),
           props |-> props, target_url |-> PageUrl]) :
       t \in {UNKNOWN, REPLY}, props \in EntryProps}

\* WebmentionsRequestParser.parse(source, target): the source is fetched and
\* answers with a status, a body and the microformats read from the body.
Parse ==
    /\ LET a == applied.args
           outcome == parse(a.source, a.target,
                            Fetched(a.status_code, a.doc, a.target))
       IN  Result("parse",
                  [outcome |-> outcome,
                   mention |-> IF outcome = Ok
                               THEN Some(parsed_mention(a.source, a.target,
                                                        a.items))
                               ELSE None])
    /\ UNCHANGED machineVars

NoProps == [n \in PropNames |-> <<>>]

\* Pages: a plain link to the target, a link to another URL, no link; with
\* no microformats, an h-entry replying to the target, or an h-entry liking
\* it inside an h-feed.
PlainLink == <<Tag("href", PageUrl), Text("t")>>

ParseDocs == {PlainLink, <<Tag("href", NearUrl), Text("t")>>, <<Text("t")>>}

ParseItems ==
    {<<>>,
     <<Item("h-entry", [NoProps EXCEPT !["in-reply-to"] = <<Str(PageUrl)>>],
            <<>>)>>,
     <<Item("h-feed", NoProps,
            <<Item("h-entry", [NoProps EXCEPT !["like-of"] = <<Str(PageUrl)>>],
                   <<>>)>>)>>}

ParseCalls ==
    {Call("parse", [source |-> source, target |-> PageUrl,
                    status_code |-> status_code, doc |-> doc,
                    items |-> items]) :
       source \in {"", "http://s/p"}, status_code \in StatusCodes,
       doc \in ParseDocs, items \in ParseItems}

\* Webmention.build(m.to_dict())
BuildToDict ==
    /\ Result("build", build(to_dict(applied.args.m), INCOMING))
    /\ UNCHANGED machineVars

\* Mentions of either direction, any status, with the types and raw names
\* the parser gives, and datetimes without timezone, in UTC and east of it
TypedAs ==
    {<<UNKNOWN, None>>, <<MENTION, Some("mention")>>,
     <<LIKE, Some("like-of")>>, <<REPLY, Some("in-reply-to")>>}

BuildCalls ==
    {Call("build",
          [m |-> [TypedMention(Webmention("http://s/p", PageUrl, direction,
                                          status, published),
                               typed[1], typed[2])
                    EXCEPT !.created_at = created_at]]) :
       direction \in WebmentionDirection, status \in WebmentionStatus,
       published \in {None, datetime(12, Naive), datetime(12, UTC),
                      datetime(12, East)},
       created_at \in {None, datetime(13, Naive)}, typed \in TypedAs}

\* A response passes the after_request hook of an application with the
\* bound endpoints
AfterRequest ==
    /\ Result("after_request",
              webmentions_link_header_after_request(applied.args.response,
                                                    applied.args.endpoints))
    /\ UNCHANGED machineVars

\* Two endpoints, the path of one being the end of the other's, bound alone
\* or together and iterated in either order
Endpoint == "/webmentions"
ApiEndpoint == "/api/webmentions"
BoundEndpoints ==
    {<<Endpoint>>, <<ApiEndpoint>>, <<Endpoint, ApiEndpoint>>,
     <<ApiEndpoint, Endpoint>>}

ContentTypes ==
    {None, Some("text/plain"), Some("text/html; charset=utf-8"),
     Some("application/json"), Some("")}

LinkHeaders ==
    {None, Some(""), Some("<http://t/next>; rel=\"next\""),
     Some(webmention_link_header_value(Endpoint)),
     Some(webmention_link_header_value(ApiEndpoint)),
     Some("<http://t/next>; rel=\"next\", "
            \o webmention_link_header_value(Endpoint))}

AfterRequestCalls ==
    {Call("after_request",
          [response |-> HttpResponse(content_type, link),
           endpoints |-> endpoints]) :
       content_type \in ContentTypes, link \in LinkHeaders,
       endpoints \in BoundEndpoints}

\* ------------------------------------------------------------------------
\* The enrichment of a parsed mention (_parse_source_payload and the steps
\* it calls, handlers/_parser.py)
\* ------------------------------------------------------------------------
\* The fields the enrichment fills. A text field holds None or Some(text).
Fields(title, excerpt, content, published, author_name, author_url,
       author_photo, mention_type, mention_type_raw) ==
    [title |-> title, excerpt |-> excerpt, content |-> content,
     published |-> published, author_name |-> author_name,
     author_url |-> author_url, author_photo |-> author_photo,
     mention_type |-> mention_type, mention_type_raw |-> mention_type_raw]

\* The mention parse() builds before it reads the payload
NoFields == Fields(None, None, None, None, None, None, None, UNKNOWN, None)

\* bool(value) of an optional text
Truthy(value) == value # None /\ value[1] # ""

\* a or b, for optional texts
Or(a, b) == IF Truthy(a) THEN a ELSE b

\* The properties of an h-entry the enrichment reads, next to those the type
\* is inferred from; each is a list of values. An embedded h-card is
\* <<"card", name, url, photo>>.
CoreProps == {"name", "published", "summary", "content", "author"}

Card(name, url, photo) == <<"card", name, url, photo>>

\* The length of excerpt[:240] in _parse_source_payload and of excerpt[:250]
\* in _fill_from_html_fallbacks
ExcerptAfterEntry == 240
ExcerptAfterFallbacks == 250

Whitespace == {" ", "\n", "\t"}

\* re.sub(r"\s+", " ", text): every run of whitespace becomes one space.
\* The text is read in halves, a run that spans both giving one space.
RECURSIVE sub_whitespace(_)
sub_whitespace(text) ==
    IF Len(text) <= 1
    THEN (IF text \in Whitespace THEN " " ELSE text)
    ELSE LET half == Len(text) \div 2
             left == sub_whitespace(SubSeq(text, 1, half))
             right == sub_whitespace(SubSeq(text, half + 1, Len(text)))
         IN  IF SubSeq(left, Len(left), Len(left)) = " "
                  /\ SubSeq(right, 1, 1) = " "
             THEN left \o SubSeq(right, 2, Len(right))
             ELSE left \o right

\* excerpt = re.sub(r"\s+", " ", content).strip(); excerpt[:limit] if
\* excerpt else None
excerpt_of(content, limit) ==
    LET excerpt == strip(sub_whitespace(content))
    IN  IF excerpt = "" THEN None
        ELSE Some(SubSeq(excerpt, 1, IF Len(excerpt) < limit THEN Len(excerpt)
                                     ELSE limit))

\* c0 = content[0]: value of a dict (it has no html here), the text itself
content_of(values) ==
    LET c0 == IF values = <<>> THEN None
              ELSE IF values[1][1] = "dict"
                   THEN (IF values[1][2] = "" THEN None ELSE Some(values[1][2]))
                   ELSE Some(values[1][2])
    IN  Or(c0, first_str(values))

\* mention.published = datetime.fromisoformat(published)
published_of(text) == fromisoformat(text)

\* _fill_core_fields_from_entry(mention, props)
fill_core_fields_from_entry(m, props) ==
    LET published == first_str(props["published"])
        summary == first_str(props["summary"])
    IN  [m EXCEPT
           !.title = Or(m.title, first_str(props["name"])),
           !.published = IF m.published = None /\ published # None
                         THEN published_of(published[1]) ELSE m.published,
           !.excerpt = IF Truthy(summary) /\ ~Truthy(m.excerpt)
                       THEN summary ELSE m.excerpt,
           !.content = IF Truthy(m.content) THEN m.content
                       ELSE content_of(props["content"])]

\* _extract_author(props): name, url and photo
extract_author(props) ==
    LET author == props["author"] IN
    IF author = <<>> THEN <<None, None, None>>
    ELSE IF author[1][1] = "str" THEN <<None, Some(author[1][2]), None>>
    ELSE <<author[1][2], author[1][3], author[1][4]>>

\* The author of the h-entry is applied whatever the mention holds
fill_author_always(m, props) ==
    LET author == extract_author(props) IN
    [m EXCEPT !.author_name = author[1], !.author_url = author[2],
              !.author_photo = author[3]]

\* _fill_author_from_entry(mention, props)
fill_author_from_entry(m, props) ==
    IF Truthy(m.author_name) \/ Truthy(m.author_url) \/ Truthy(m.author_photo)
    THEN m
    ELSE LET author == extract_author(props) IN
         [m EXCEPT !.author_name = author[1], !.author_url = author[2],
                   !.author_photo = author[3]]

\* The meta tags and the title of a page
Metas(og_title, twitter_title, title, author, published_time,
      og_description) ==
    [og_title |-> og_title, twitter_title |-> twitter_title, title |-> title,
     author |-> author, published_time |-> published_time,
     og_description |-> og_description]

\* _fill_from_html_fallbacks(mention, html)
fill_from_html_fallbacks(m, metas) ==
    LET title == IF Truthy(m.title) THEN m.title
                 ELSE IF Truthy(metas.og_title) THEN metas.og_title
                 ELSE IF Truthy(metas.twitter_title) THEN metas.twitter_title
                 ELSE IF Truthy(metas.title)
                      THEN Some(strip(metas.title[1]))
                 ELSE m.title
        content == IF ~Truthy(m.content) /\ Truthy(metas.og_description)
                   THEN metas.og_description ELSE m.content
    IN  [m EXCEPT
           !.title = title,
           !.author_name = IF ~Truthy(m.author_name) /\ Truthy(metas.author)
                           THEN metas.author ELSE m.author_name,
           !.published = IF m.published = None /\ metas.published_time # None
                         THEN published_of(metas.published_time[1])
                         ELSE m.published,
           !.content = content,
           !.excerpt = IF Truthy(content) /\ ~Truthy(m.excerpt)
                       THEN excerpt_of(content[1], ExcerptAfterFallbacks)
                       ELSE m.excerpt]

\* The end of _parse_source_payload: if not mention.excerpt and
\* mention.content
derive_excerpt(m) ==
    IF ~Truthy(m.excerpt) /\ Truthy(m.content)
    THEN [m EXCEPT !.excerpt = excerpt_of(m.content[1], ExcerptAfterEntry)]
    ELSE m

\* _parse_source_payload(mention, html, source_url, target_url) step by
\* step: the mention as it is given and after _fill_core_fields_from_entry,
\* _fill_author_from_entry, _infer_mention_type_from_entry (the three only
\* for a page with an h-entry), _fill_from_html_fallbacks and the excerpt.
\* _fill_mf2_metadata and _fill_comments_from_entry write the metadata only.
payload_steps(m, entry, metas, target_url) ==
    LET m1 == IF entry = None THEN m
              ELSE fill_core_fields_from_entry(m, entry[1])
        m2 == IF entry = None THEN m1
              ELSE fill_author_from_entry(m1, entry[1])
        m3 == IF entry = None THEN m2
              ELSE infer_mention_type_from_entry(m2, entry[1], target_url)
        m4 == fill_from_html_fallbacks(m3, metas)
    IN  <<m, m1, m2, m3, m4, derive_excerpt(m4)>>

ParseSourcePayload ==
    /\ Result("_parse_source_payload",
              payload_steps(applied.args.mention, applied.args.entry,
                            applied.args.metas, applied.args.target_url))
    /\ UNCHANGED machineVars

\* Mentions as parse() builds them and as a caller of the steps may hold
\* them
GivenFields ==
    {NoFields,
     Fields(Some("T0"), Some("E0"), Some("C0"), datetime(1, UTC),
            Some("Already"), Some("http://a0"), Some("http://a0/p"),
            REPLY, Some("in-reply-to")),
     [NoFields EXCEPT !.author_name = Some("Already")],
     [NoFields EXCEPT !.author_url = Some("http://a0")],
     [NoFields EXCEPT !.content = Some("C0")]}

RECURSIVE Repeat(_, _)
Repeat(text, n) == IF n = 0 THEN "" ELSE text \o Repeat(text, n - 1)

\* 260 characters in words of nine
LongText == Repeat("abcdefghi ", 26)

NoEntryProps == [n \in PropNames \cup CoreProps |-> <<>>]

\* No h-entry; an empty one; one with every property, the published time
\* without offset; ones with a content only: spaced, blank, long; one whose
\* author is a URL
Entries ==
    {None,
     Some(NoEntryProps),
     Some([NoEntryProps EXCEPT
             !["name"] = <<Str("Name")>>,
             !["published"] = <<Str(isoformat(datetime(12, Naive)))>>,
             !["summary"] = <<Str("Entry summary")>>,
             !["content"] = <<Dict("Entry content")>>,
             !["author"] = <<Card(Some("New"), Some("http://new"), None)>>,
             !["like-of"] = <<Str(PageUrl)>>]),
     Some([NoEntryProps EXCEPT
             !["published"] = <<Str(isoformat(datetime(12, East)))>>,
             !["content"] = <<Dict("   a\n\n   b   \n c   ")>>]),
     Some([NoEntryProps EXCEPT !["content"] = <<Dict("    \n\n   \n")>>]),
     Some([NoEntryProps EXCEPT !["content"] = <<Str(LongText)>>]),
     Some([NoEntryProps EXCEPT !["author"] = <<Str("http://new")>>])}

\* A page without meta tags, one with all of them, one with a long
\* description
NoMetas == Metas(None, None, None, None, None, None)

PageMetas ==
    {NoMetas,
     Metas(Some("OG"), Some("TW"), Some(" Page "), Some("Meta author"),
           Some(isoformat(datetime(13, Naive))), Some("Some description")),
     [NoMetas EXCEPT !.title = Some(" Page "),
                     !.published_time = Some(isoformat(datetime(13, UTC))),
                     !.og_description = Some(LongText)]}

PayloadCalls ==
    {Call("_parse_source_payload",
          [mention |-> m, entry |-> entry, metas |-> metas,
           target_url |-> PageUrl]) :
       m \in GivenFields, entry \in Entries, metas \in PageMetas}

\* The change the watcher builds for a path whose events were coalesced
\* (_build_change and _guess_text_format of storage/adapters/file/_watcher.py)
MARKDOWN == "markdown"
TEXT == "text"

\* Every unknown extension is plain text
guess_text_by_default(abs_path) ==
    IF abs_path[3] \in {".html", ".htm"} THEN Some(HTML)
    ELSE IF abs_path[3] \in {".md", ".markdown"} THEN Some(MARKDOWN)
    ELSE Some(TEXT)

\* _guess_text_format(path)
guess_text_format(abs_path) ==
    IF abs_path[3] \in {".html", ".htm"} THEN Some(HTML)
    ELSE IF abs_path[3] \in {".md", ".markdown"} THEN Some(MARKDOWN)
    ELSE IF abs_path[3] \in {".txt", ".text"} THEN Some(TEXT)
    ELSE None

\* _build_change(event_type, abs_path) with its text and format: read is
\* what open(...).read() gives, None when it raises. The result is None
\* when no format is known for the path.
build_content_change(event_type, abs_path, isfile, read) ==
    LET change_type == build_change(event_type, abs_path, isfile).change_type
        text_format == guess_text_format(abs_path)
    IN  IF change_type = DELETED
        THEN Some(ContentChange(DELETED, abs_path, None, None))
        ELSE IF text_format = None THEN None
        ELSE Some(ContentChange(change_type, abs_path, read, text_format))

\* change = self._build_change(...); the sink is called with a change that
\* was built
sink_calls(change) == IF change = None THEN <<>> ELSE <<change[1]>>

BuildChange ==
    /\ LET change == build_content_change(applied.args.event_type,
                                          applied.args.abs_path,
                                          applied.args.isfile,
                                          applied.args.read)
       IN  Result("_build_change",
                  [change |-> change, on_change |-> sink_calls(change)])
    /\ UNCHANGED machineVars

ChangePaths ==
    {<<root_dir, "a", ext>> :
       ext \in {".html", ".htm", ".md", ".markdown", ".txt", ".text", ".bin"}}

BuildChangeCalls ==
    {Call("_build_change",
          [event_type |-> event_type, abs_path |-> abs_path,
           isfile |-> isfile, read |-> read]) :
       event_type \in EventTypes, abs_path \in ChangePaths,
       isfile \in BOOLEAN, read \in {None, Some("hello")}}

\* ------------------------------------------------------------------------
\* Initial states and the next-state relation
\* ------------------------------------------------------------------------
Row(source, target, direction, status) ==
    from_webmention(Webmention(source, target, direction, status, SomeDate),
                    datetime(0, UTC))

\* Rows a database may hold when the handler is constructed.
InitRowsIn ==
    {Row("u1", "u2", INCOMING, PENDING), Row("u2", "u2", INCOMING, CONFIRMED),
     Row("u1", "u2", OUTGOING, CONFIRMED)}

InitRowsOut ==
    {Row("u1", "u1", OUTGOING, CONFIRMED), Row("u2", "u1", OUTGOING, CONFIRMED),
     Row("u1", "u2", OUTGOING, CONFIRMED)}

InitRows ==
    {Row("u1", "u1", OUTGOING, CONFIRMED), Row("u1", "u2", INCOMING, PENDING)}

\* The state after WebmentionsHandler(storage, initial_mention_status=...,
\* on_mention_processed=..., on_mention_deleted=...) on a database holding
\* some of rows.
InitMachine(rows, statusArgs, processedSet, deletedSet, baseUrls) ==
    /\ table \in SUBSET rows
    /\ initial_mention_status \in statusArgs
    /\ init_mention_status = HandlerInit(initial_mention_status)
    /\ on_mention_processed \in processedSet
    /\ on_mention_deleted \in deletedSet
    /\ incoming = Idle
    /\ calls = <<>>
    /\ tasks = {}
    /\ clock = 0
    /\ db = NoCall
    /\ app = FastAPI
    /\ sessions = [s \in Sessions |-> NoSession]
    /\ WatcherInit
    /\ base_url \in baseUrls
    /\ http = NoRequest
    /\ file = InitialFile
    /\ monitor = NoChange

\* No function is called directly
InitHandler(rows, statusArgs, processedSet, deletedSet, baseUrls) ==
    /\ InitMachine(rows, statusArgs, processedSet, deletedSet, baseUrls)
    /\ applied = NotApplied

\* The same without a base URL
InitWith(rows, statusArgs, processedSet, deletedSet) ==
    InitHandler(rows, statusArgs, processedSet, deletedSet, {""})

ProcessIncoming(sources, targets, resps, statuses) ==
    \/ \E source \in sources, target \in targets, resp \in resps,
          pstatus \in statuses, ppublished \in Published :
         IncomingParse(source, target, resp, pstatus, ppublished)
    \/ IncomingStore
    \/ \E b \in ProcessedBehaviours : IncomingProcessed(b)
    \/ IncomingDelete
    \/ \E b \in DeletedBehaviours : IncomingDeleted(b)

ProcessOutgoing(sources, texts, excs) ==
    \/ \E source_url \in sources, now \in texts, retrieve_exc \in excs :
         OutgoingStart(source_url, now, retrieve_exc)
    \/ \E i \in 1..Len(calls) : OutgoingDispatch(i)
    \/ \E t \in tasks, net \in NetOutcomes : AddedNotify(t, net)
    \/ \E t \in tasks, net \in NetOutcomes : RemovedNotify(t, net)
    \/ \E t \in tasks : AddedStore(t)
    \/ \E t \in tasks : RemovedDelete(t)
    \/ \E t \in tasks, b \in DeletedBehaviours : RemovedCallback(t, b)

\* The handler serving incoming requests only.
InitIn == InitWith(InitRowsIn, {Unset, PENDING, CONFIRMED}, BOOLEAN, BOOLEAN)

NextIn == ProcessIncoming(URLs \cup {""}, {"u2"}, Responses, WebmentionStatus)

SpecIn == InitIn /\ [][NextIn]_vars

\* The handler driven by outgoing calls only, for the source u1 and every
\* set of links its text may hold.
InitOut == InitWith(InitRowsOut, {Unset}, {FALSE}, BOOLEAN)

NextOut == ProcessOutgoing({"u1"}, SUBSET URLs, BOOLEAN)

SpecOut == InitOut /\ [][NextOut]_vars

\* Both processors at once: incoming requests for (u1, u2) and outgoing
\* calls for u1 whose text links u2.
Init == InitWith(InitRows, {Unset}, {TRUE}, {TRUE})

Next ==
    \/ ProcessIncoming({"u1"}, {"u2"},
                       {r \in Responses : r.mentions_target}, {CONFIRMED})
    \/ ProcessOutgoing({"u1"}, {{"u2"}}, {FALSE})

Spec == Init /\ [][Next]_vars

\* The storage alone, on an empty database.
InitDb == InitWith({}, {Unset}, {FALSE}, {FALSE})

NextDb ==
    \/ \E m \in DbMentions : DbStore(m)
    \/ \E k \in DbKeys : DbDelete(k[1], k[2], k[3])
    \/ Tick

SpecDb == InitDb /\ [][NextDb]_vars

\* Store calls in threads, with Delete calls between their steps, on a
\* database that may hold a row of the key already.
InitRowsSessions == {Row("u1", "u2", INCOMING, PENDING)}

InitSessions == InitWith(InitRowsSessions, {Unset}, {FALSE}, {FALSE})

NextSessions ==
    \/ \E s \in Sessions, m \in SessionMentions : SessionBegin(s, m)
    \/ \E s \in Sessions : SessionInsert(s)
    \/ \E s \in Sessions : SessionSelect(s)
    \/ \E s \in Sessions : SessionInsertAgain(s)
    \/ \E s \in Sessions : SessionUpdate(s)
    \/ SessionDelete("u1", "u2", INCOMING)
    \/ Tick

SpecSessions == InitSessions /\ [][NextSessions]_vars

\* The watcher alone.
InitWatch == InitWith({}, {Unset}, {FALSE}, {FALSE})

NextWatch ==
    \/ \E isdir \in BOOLEAN : Start(isdir)
    \/ Stop
    \/ \E ev \in RawEvents : FsEvent(ev)
    \/ WorkerGet
    \/ \E isfile \in [Due(monotonic) -> BOOLEAN] : FlushDebounced(isfile)
    \/ Pass

SpecWatch == InitWatch /\ [][NextWatch]_vars

\* The watcher with workers that may outlive their stop() and a sink that
\* may raise, for events on two files. Time runs to MaxTick and the last
\* event comes early enough for the debounce interval to pass twice after it.
MaxTick == 7

DebounceEvents ==
    [type : {"modified"}, src_path : {AMd, BMd}, dest_path : {EmptyPath}]

InitDebounce == InitWith({}, {Unset}, {FALSE}, {FALSE})

NextDebounce ==
    \/ \E isdir \in {TRUE} : Start(isdir)
    \/ \E timed_out \in BOOLEAN : StopJoin(timed_out)
    \/ WorkerExit
    \/ \E ev \in DebounceEvents :
         FsEventUntil(ev, MaxTick - 2 * throttle_seconds)
    \/ WorkerGet
    \/ \E isfile \in [Due(monotonic) -> {TRUE}],
          raises \in SUBSET Due(monotonic) : Flush(isfile, raises)
    \/ PassUntil(MaxTick)

SpecDebounce == InitDebounce /\ [][NextDebounce]_vars

\* The same with the scheduling the worker's loop gives: a queued event is
\* taken and a flush tick that has something to deliver runs, unless the
\* watcher is stopped first; and time goes on whatever else happens.
DebounceFairness ==
    /\ WF_vars(WorkerGet)
    /\ WF_vars(\E isfile \in [Due(monotonic) -> {TRUE}],
                  raises \in SUBSET Due(monotonic) : Flush(isfile, raises))
    /\ SF_vars(PassUntil(MaxTick))

SpecDebounceFair == SpecDebounce /\ DebounceFairness

\* The route of a server with and without a base URL, and the sources and
\* targets a client may name.
SourceUrl == "http://s/p"
TargetUrl == "http://t/a"
TargetUrls == {"", TargetUrl, "http://t/a?x&y", "http://o/a"}

SourceDocs ==
    {<<>>,
     <<Text("hello")>>,
     <<Text("see http://t/a")>>,
     <<Tag("href", "http://t/a")>>,
     <<Tag("src", "http://t/a")>>,
     <<Tag("href", "http://t/a/")>>,
     <<Tag("href", "http://t/a?x&y")>>,
     <<Tag("href", "http://t/b"), Tag("src", "http://t/c")>>}

InitRoute == InitHandler({}, {Unset}, {FALSE}, {FALSE}, {"", "http://t"})

NextRoute ==
    \/ \E source \in {"", SourceUrl}, target \in TargetUrls,
          status_code \in StatusCodes, doc \in SourceDocs :
         Post(source, target, status_code, doc)
    \/ \E ppublished \in Published : RouteProcess(ppublished)
    \/ IncomingStore
    \/ IncomingProcessed(Return)
    \/ IncomingDelete
    \/ IncomingDeleted(Return)
    \/ Respond

SpecRoute == InitRoute /\ [][NextRoute]_vars

\* A FastAPI app on which routes are bound and to which clients POST
InitFastApi == InitHandler({}, {Unset}, {FALSE}, {FALSE}, {""})

NextFastApi ==
    \/ \E route \in FastApiRoutes : BindWebmentions(route)
    \/ \E route \in FastApiRoutes, target \in TargetUrls,
          status_code \in {200, 404}, doc \in SourceDocs :
         FastApiPost(route, SourceUrl, target, status_code, doc)
    \/ \E ppublished \in Published : RouteProcess(ppublished)
    \/ IncomingStore
    \/ IncomingProcessed(Return)
    \/ IncomingDelete
    \/ IncomingDeleted(Return)
    \/ FastApiRespond

SpecFastApi == InitFastApi /\ [][NextFastApi]_vars

\* The sending server's monitor and handler, and the receiving server's
\* route. The sender's database may hold a mention of the source page sent
\* for another page of the sending server.
InitRowsE2E == {Row("http://a/x", SenderUrl, OUTGOING, CONFIRMED)}

InitE2E == InitHandler(InitRowsE2E, {Unset}, {FALSE}, {FALSE}, {"http://b"})

NextE2E ==
    \/ \E change_type \in {ADDED, EDITED, DELETED},
          doc \in FileDocs \cup {<<>>} :
         on_filesystem_change(change_type, doc)
    \/ \E i \in 1..Len(calls) : OutgoingDispatch(i)
    \/ \E t \in tasks : NotifyPost(t)
    \/ ReceiverProcess
    \/ IncomingStore
    \/ IncomingProcessed(Return)
    \/ IncomingDelete
    \/ IncomingDeleted(Return)
    \/ Respond
    \/ \E t \in tasks, net \in NetOutcomes : Notify(t, net)
    \/ \E t \in tasks : AddedStore(t)
    \/ \E t \in tasks : RemovedDelete(t)
    \/ \E t \in tasks : RemovedCallback(t, Return)

SpecE2E == InitE2E /\ [][NextE2E]_vars

\* The sending server alone: the monitor and the outgoing processor, on a
\* database that may hold the mention the source sent to the receiver's
\* page and a mention another page sent for the source page.
InitRowsMonitor ==
    {Row(SenderUrl, ReceiverUrl, OUTGOING, CONFIRMED),
     Row("http://a/x", SenderUrl, OUTGOING, CONFIRMED)}

InitMonitor == InitHandler(InitRowsMonitor, {Unset}, {FALSE}, {FALSE}, {""})

NextMonitor ==
    \/ \E change_type \in {ADDED, EDITED, DELETED},
          doc \in FileDocs \cup {<<>>} :
         on_filesystem_change(change_type, doc)
    \/ \E i \in 1..Len(calls) : OutgoingDispatch(i)
    \/ \E t \in tasks, net \in {PostOk, PostError} : AddedNotify(t, net)
    \/ \E t \in tasks, net \in {PostOk, PostError} : RemovedNotify(t, net)
    \/ \E t \in tasks : AddedStore(t)
    \/ \E t \in tasks : RemovedDelete(t)
    \/ \E t \in tasks : RemovedCallback(t, Return)

SpecMonitor == InitMonitor /\ [][NextMonitor]_vars

\* The functions that keep no state, each called once with arguments drawn
\* from the sets above
InitCalls ==
    /\ InitMachine({}, {Unset}, {FALSE}, {FALSE}, {""})
    /\ applied \in InferCalls \cup ParseCalls \cup BuildCalls
                       \cup AfterRequestCalls \cup BuildChangeCalls
                       \cup PayloadCalls

NextCalls ==
    \/ InferMentionType
    \/ Parse
    \/ BuildToDict
    \/ AfterRequest
    \/ BuildChange
    \/ ParseSourcePayload

SpecCalls == InitCalls /\ [][NextCalls]_vars

\* ------------------------------------------------------------------------
\* Properties of the outgoing processor
\* ------------------------------------------------------------------------
TasksOf(i, kind) == {t \in tasks : t.call = i /\ t.kind = kind}

AddedTargets(i) == {t.target : t \in TasksOf(i, "added")}

RemovedTargets(i) == {t.target : t \in TasksOf(i, "removed")}

Dispatched == {i \in 1..Len(calls) : calls[i].pc = "dispatched"}

HasRow(tbl, source, target, direction) ==
    \E r \in tbl : Key(r) = <<source, target, direction>>

Index(log, e) == CHOOSE k \in DOMAIN log : log[k] = e

In(log, e) == \E k \in DOMAIN log : log[k] = e

StoreCalled(t) == In(t.log, "store_ok") \/ In(t.log, "store_failed")

\* C1, as stated: in every call the targets dispatched as added are exactly
\* T_now \ T_prev and those dispatched as removed are exactly T_prev \ T_now,
\* so a target in both sets gets no task at all.
C1_AddedIsNowMinusPrevious ==
    \A i \in Dispatched :
        /\ AddedTargets(i) = calls[i].now \ calls[i].prev
        /\ RemovedTargets(i) = calls[i].prev \ calls[i].now

\* C1, amended: in every call the targets dispatched as added are exactly
\* T_now (a target that is also in T_prev is notified again), the targets
\* dispatched as removed are exactly T_prev \ T_now, and no target is
\* dispatched as both.
C1_AddedIsNow ==
    \A i \in Dispatched :
        /\ AddedTargets(i) = calls[i].now
        /\ RemovedTargets(i) = calls[i].prev \ calls[i].now
        /\ AddedTargets(i) \cap RemovedTargets(i) = {}
        /\ \A x \in calls[i].now \cap calls[i].prev :
             x \in AddedTargets(i) /\ x \notin RemovedTargets(i)

\* A call whose text links a previously-sent target and a new one.
C1_Witness ==
    \E i \in Dispatched :
        /\ calls[i].now \cap calls[i].prev # {}
        /\ calls[i].now \ calls[i].prev # {}
        /\ AddedTargets(i) = calls[i].now

\* C2: an added task calls the store only after its POST answered success,
\* the tasks of a call exist only once its previous set has been retrieved,
\* and a task whose discovery or POST failed stores nothing and lets no
\* exception out.
C2_StoreOnlyAfterPostSuccess ==
    /\ \A t \in tasks : calls[t.call].pc = "dispatched"
    /\ \A t \in tasks :
         t.kind = "added" =>
           /\ StoreCalled(t) => In(t.log, "post_ok")
           /\ ~t.escaped

\* C3: a removed task deletes after its notification attempt whatever the
\* attempt's outcome, and the step that deletes leaves no (source, target,
\* OUT) row behind.
C3_RemovedDeletesAfterAttempt ==
    [][/\ \A t \in tasks' :
            (t.kind = "removed" /\ t.pc \in {"callback", "done"}) =>
              /\ t.net \in NetOutcomes
              /\ In(t.log, "delete")
              /\ Index(t.log, "delete") = Len(notify_target(t.net).log) + 1
              /\ SubSeq(t.log, 1, Len(notify_target(t.net).log))
                   = notify_target(t.net).log
       /\ \A t \in tasks :
            (t.kind = "removed" /\ t.pc = "delete" /\ t \notin tasks') =>
              ~HasRow(table', t.source, t.target, OUTGOING)]_vars

\* A removed task whose POST failed has finished, and the row that was stored
\* for its key when the call began is gone.
C3_Witness ==
    \E t \in tasks :
        /\ t.kind = "removed" /\ t.pc = "done" /\ t.net = PostError
        /\ t.target \in calls[t.call].sent
        /\ ~HasRow(table, t.source, t.target, OUTGOING)

\* C4: an added task whose discovery found no endpoint makes no POST and
\* does not store the mention.
C4_NoEndpointStoresNothing ==
    \A t \in tasks :
        (t.kind = "added" /\ t.pc = "done"
           /\ discover_webmention_endpoint(t.net) = None) =>
          /\ ~In(t.log, "post_ok") /\ ~In(t.log, "post_error")
          /\ ~StoreCalled(t)

\* C5: the previous set a call loads from the storage is the set of targets
\* of the stored outgoing mentions of its source, so every such target that
\* the text no longer links is dispatched as removed.
C5_PreviousIsSentTargets ==
    \A i \in 1..Len(calls) :
        ~calls[i].retrieve_exc =>
          /\ calls[i].prev = calls[i].sent
          /\ i \in Dispatched =>
               calls[i].sent \ calls[i].now \subseteq RemovedTargets(i)

TaskStep(t) ==
    \/ \E net \in NetOutcomes : AddedNotify(t, net)
    \/ \E net \in NetOutcomes : RemovedNotify(t, net)
    \/ AddedStore(t)
    \/ RemovedDelete(t)
    \/ \E b \in DeletedBehaviours : RemovedCallback(t, b)

Ops(log, op, by) == {k \in DOMAIN log : log[k].op = op /\ log[k].by = by}

RowStatus(tbl, source, target, direction) ==
    {r.status : r \in {x \in tbl : Key(x) = <<source, target, direction>>}}

\* C7: when the parser raises WebmentionGone the request deletes the key
\* (source, target, IN), stores nothing, does not call on_mention_processed,
\* calls on_mention_deleted after the delete, and leaves no incoming mention
\* with that key in the table.
C7_GoneDeletes ==
    incoming.outcome = WebmentionGone =>
      /\ incoming.pc \in {"delete", "deleted", "done"}
      /\ \A k \in DOMAIN incoming.log :
           /\ incoming.log[k].op \in {"delete", "on_mention_deleted"}
           /\ incoming.log[k].op = "on_mention_deleted" => k = 2
      /\ incoming.pc \in {"deleted", "done"} =>
           /\ Ops(incoming.log, "delete", "processor") = {1}
           /\ ~HasRow(table, incoming.source, incoming.target, INCOMING)
      /\ incoming.pc = "done" =>
           /\ incoming.result = WebmentionGone
           /\ on_mention_deleted =>
                Ops(incoming.log, "on_mention_deleted", "processor") = {2}

\* A stored incoming mention whose source is gone: deleted, callback called.
C7_Witness ==
    /\ incoming.outcome = WebmentionGone
    /\ incoming.pc = "done"
    /\ incoming.had_row
    /\ Len(incoming.log) = 2
    /\ incoming.log[2].op = "on_mention_deleted"
    /\ ~HasRow(table, incoming.source, incoming.target, INCOMING)

ConfiguredInitialStatus ==
    IF initial_mention_status = Unset THEN CONFIRMED ELSE initial_mention_status

\* C8: the mention the request passes to the store carries the configured
\* initial status (CONFIRMED when none is configured), whatever status the
\* parser gave it, and that is the status of the row right after the store.
C8_StoredWithInitialStatus ==
    /\ \A k \in Ops(incoming.log, "store", "processor") :
         incoming.log[k].status = ConfiguredInitialStatus
    /\ incoming.pc = "processed" =>
         RowStatus(table, incoming.source, incoming.target, INCOMING)
           = {ConfiguredInitialStatus}

\* Configured PENDING, parsed CONFIRMED: stored as PENDING.
C8_Witness ==
    /\ initial_mention_status = PENDING
    /\ incoming.parsed_status = CONFIRMED
    /\ incoming.pc = "processed"
    /\ incoming.log = <<Entry("store", "processor", PENDING, TRUE)>>
    /\ RowStatus(table, incoming.source, incoming.target, INCOMING) = {PENDING}

\* C9: a request whose parse succeeded calls the store once, first; the
\* callback runs only after that store succeeded; a store made by the callback
\* comes later, succeeds, and its status is the one the row ends with.
C9_StoreOnceBeforeCallback ==
    incoming.outcome = Ok =>
      /\ Ops(incoming.log, "store", "processor")
           = IF incoming.pc = "store" THEN {} ELSE {1}
      /\ \A k \in DOMAIN incoming.log :
           (incoming.log[k].op = "on_mention_processed"
              \/ incoming.log[k].by = "callback") =>
             /\ k > 1
             /\ incoming.log[1].ok
      /\ \A k \in Ops(incoming.log, "store", "callback") :
           /\ k = Len(incoming.log)
           /\ incoming.log[k - 1].op = "on_mention_processed"
           /\ incoming.log[k].ok
           /\ incoming.pc = "done"
           /\ RowStatus(table, incoming.source, incoming.target, INCOMING)
                = {incoming.log[k].status}

\* Moderation: stored PENDING, then the callback stored DELETED.
C9_Witness ==
    /\ incoming.pc = "done"
    /\ incoming.log = <<Entry("store", "processor", PENDING, TRUE),
                        Entry("on_mention_processed", "processor", PENDING, TRUE),
                        Entry("store", "callback", DELETED, TRUE)>>
    /\ incoming.had_row
    /\ RowStatus(table, incoming.source, incoming.target, INCOMING) = {DELETED}

CallbackRaised(log) ==
    /\ Len(log) > 0
    /\ log[Len(log)].op \in {"on_mention_processed", "on_mention_deleted"}
    /\ ~log[Len(log)].ok

\* C10: an exception of a user callback reaches neither the caller of the
\* incoming request nor the outside of an outgoing task, and the step in
\* which the callback raised leaves the table as the store or delete before it
\* left it.
C10_CallbackExceptionsCaught ==
    [][/\ incoming'.result # CallbackError
       /\ \A t \in tasks' : ~t.escaped
       /\ (incoming.pc \in {"processed", "deleted"} /\ incoming'.pc = "done"
             /\ CallbackRaised(incoming'.log)) =>
            /\ table' = table
            /\ incoming.pc = "processed" =>
                 /\ incoming'.result = Ok
                 /\ RowStatus(table', incoming.source, incoming.target,
                              INCOMING) = {incoming.mention.status}
            /\ incoming.pc = "deleted" =>
                 ~HasRow(table', incoming.source, incoming.target, INCOMING)
       /\ \A t \in tasks :
            (t.pc = "callback" /\ t \notin tasks') => table' = table]_vars

\* on_mention_processed raised in a request that had stored its mention, and
\* on_mention_deleted raised in a removed task that had deleted its row.
C10_Witness ==
    /\ incoming.pc = "done"
    /\ incoming.outcome = Ok
    /\ CallbackRaised(incoming.log)
    /\ incoming.result = Ok
    /\ HasRow(table, incoming.source, incoming.target, INCOMING)
    /\ \E t \in tasks :
         /\ t.pc = "done"
         /\ In(t.log, "on_mention_deleted_raised")
         /\ t.target \in calls[t.call].sent
         /\ ~HasRow(table, t.source, t.target, OUTGOING)

\* ------------------------------------------------------------------------
\* Properties of the SQL storage
\* ------------------------------------------------------------------------
RowsOf(tbl, m) == {r \in tbl : Key(r) = Key(m)}

\* What a caller reads for the key of m: Retrieve(m.target, m.direction),
\* narrowed to the source of m.
Read(tbl, m) ==
    {x \in retrieve_webmentions(tbl, m.target, m.direction) :
       x.source = m.source}

\* C11: after any sequence of Store and Delete the table holds at most one
\* row per key, and a Store of a key that has a row changes that row without
\* adding one.
C11_OneRowPerKey ==
    [][/\ \A r1, r2 \in table' : Key(r1) = Key(r2) => r1 = r2
       /\ (db'.op = "store" /\ ~db'.fresh) =>
            /\ Cardinality(table') = Cardinality(table)
            /\ table' \ RowsOf(table', db'.mention)
                 = table \ RowsOf(table, db'.mention)]_vars

\* A key stored twice with different titles next to another key: one row
\* for it, carrying the second title.
C11_Witness ==
    /\ db.op = "store" /\ db.ok /\ ~db.fresh
    /\ db.mention.title # None
    /\ Cardinality(table) = 2
    /\ \E r \in RowsOf(table, db.mention) :
         /\ r.title = db.mention.title
         /\ r.updated_at # r.created_at

\* C12: a Store of a key that has a row leaves the created_at read for that
\* key as it was and the updated_at read no earlier than it was, whatever
\* created_at or published the stored mention carries.
C12_CreatedAtPreserved ==
    [][(db'.op = "store" /\ ~db'.fresh) =>
         /\ Read(table', db'.mention) # {}
         /\ \A a \in Read(table, db'.mention), b \in Read(table', db'.mention) :
              /\ b.created_at = a.created_at
              /\ Instant(b.updated_at) >= Instant(a.updated_at)]_vars

\* The second mention carried a created_at of its own, later than the first
\* Store; the row kept the first created_at and has a later updated_at.
C12_Witness ==
    /\ db.op = "store" /\ db.ok /\ ~db.fresh
    /\ db.mention.created_at # None
    /\ \E x \in Read(table, db.mention) :
         /\ Instant(x.created_at) < Instant(db.mention.created_at)
         /\ Instant(x.updated_at) > Instant(x.created_at)

\* C13: after a mention m was stored into a table without a row for its key,
\* Retrieve(m.target, m.direction) holds exactly one mention with the source
\* of m; its title, mention type and published instant are those of m and
\* its created_at and updated_at are set.
C13_RoundTrip ==
    (db.op = "store" /\ db.ok /\ db.fresh) =>
      /\ Cardinality(Read(table, db.mention)) = 1
      /\ \A x \in Read(table, db.mention) :
           /\ x.title = db.mention.title
           /\ x.mention_type = db.mention.mention_type
           /\ x.published # None
           /\ Instant(x.published) = Instant(db.mention.published)
           /\ x.created_at # None
           /\ x.updated_at # None

\* C14: Delete removes the rows of exactly its key, never raises, and when
\* the key has no row (as on a second Delete in a row) leaves the table as it
\* is.
C14_DeleteIdempotentLocal ==
    [][db'.op = "delete" =>
         /\ db'.ok
         /\ table' = table \ RowsOf(table, db'.mention)
         /\ RowsOf(table', db'.mention) = {}
         /\ db'.fresh => table' = table]_vars

\* A Delete of a stored key, the rows of the two other keys still there.
C14_Witness ==
    /\ db.op = "delete" /\ ~db.fresh
    /\ RowsOf(table, db.mention) = {}
    /\ Cardinality(table) = 2
    /\ \E r \in table : r.source = db.mention.source
    /\ \E r \in table : r.target = db.mention.target
                          /\ r.direction = db.mention.direction

\* ------------------------------------------------------------------------
\* Properties of the filesystem watcher
\* ------------------------------------------------------------------------
Flushed == last_processed_at' # last_processed_at

SinkCalls(log, p) == {k \in DOMAIN log : log[k].path = p}

Corresponds(change_type, event_type) ==
    CASE event_type = "deleted" -> change_type = DELETED
      [] event_type = "created" -> change_type \in {ADDED, DELETED}
      [] OTHER -> change_type \in {EDITED, DELETED}

C16_StartStopIdempotent ==
    [][/\ (watch_observer' = None) <=> (watch_thread' = None)
       /\ observers_alive' = IF watch_observer' = None THEN 0 ELSE 1
       /\ workers_alive' = IF watch_thread' = None THEN 0 ELSE 1
       /\ (Running /\ watch_observer' # None) => observer' = observer
       /\ (~Running /\ watch_observer' = None) => observer' = observer
       /\ (~Running /\ watcher_call' \in {"start_missing", "stop"}) =>
            watch_observer' = None
       /\ (~Running /\ watch_observer' # None) =>
            /\ watcher_call' = "start"
            /\ observer' = [scheduled |-> <<root_dir>>, started |-> TRUE,
                            stopped |-> FALSE, joined |-> <<>>]
       /\ (Running /\ watch_observer' = None) =>
            /\ watcher_call' = "stop"
            /\ observer'.stopped
            /\ observer'.joined = <<JoinTimeout>>
            /\ watch_queue' = <<>>]_vars

\* Started, stopped, and stop() called again: the observer was stopped and
\* joined once, nothing is left running.
C16_Witness ==
    /\ watcher_call = "stop"
    /\ watch_observer = None /\ watch_thread = None
    /\ observer.started /\ observer.stopped
    /\ observer.joined = <<JoinTimeout>>
    /\ observers_alive = 0 /\ workers_alive = 0
    /\ on_change # <<>>

Monitored(e) == e[2] # EmptyPath /\ e[2][1] = "/root" /\ e[2][3] = ".md"

\* C17: a raw event (a move as deleted(src) then created(dest)) is enqueued
\* exactly when its path is not empty, lies in the root directory and ends
\* with a monitored extension; nothing else is ever queued, pending or handed
\* to the sink.
C17_OnlyMonitoredEnqueued ==
    [][/\ (fs_event' # fs_event \/ Len(watch_queue') > Len(watch_queue)) =>
            watch_queue' = watch_queue
                             \o SelectSeq(Decompose(fs_event'), Monitored)
       /\ \A k \in DOMAIN watch_queue' : Monitored(watch_queue'[k])
       /\ \A p \in pending_paths' : Monitored(<<"", p>>)
       /\ \A k \in DOMAIN on_change' : Monitored(<<"", on_change'[k].path>>)]_vars

\* A file with an extension that is not monitored was renamed to one with a
\* monitored extension: only the created(dest) is queued.
C17_Witness ==
    /\ fs_event = [type |-> "moved", src_path |-> <<root_dir, "c", ".txt">>,
                   dest_path |-> BMd]
    /\ watch_queue = <<(<<"created", BMd>>)>>

\* ------------------------------------------------------------------------
\* Properties of the parser and of the bound route
\* ------------------------------------------------------------------------
\* The request being served has been parsed.
Parsed == http.pc = "request" /\ incoming.pc # "idle"

\* The request names a source and a target the parser accepts.
ValidRequest ==
    /\ http.source # "" /\ http.target # ""
    /\ base_url # "" => netloc(http.target) = netloc(base_url)

\* The fetched document holds the target as the exact value of an href or
\* src attribute, or its markup holds the target as a substring.
TargetInBody ==
    \/ \E i \in 1..Len(http.get_doc) :
         /\ http.get_doc[i].attr \in {"href", "src"}
         /\ http.get_doc[i].value = http.target
    \/ Contains(html(http.get_doc), http.target)

Is2xx(status_code) == 200 <= status_code /\ status_code < 300

\* C18: parse fails with WebmentionGone, and returns no mention, when the
\* source answers 404 or 410 and when the fetched body holds the target
\* neither as the exact value of an href or src attribute nor as a raw
\* substring; any other answer that is not 2xx fails with an error that is
\* not WebmentionGone.
C18_GoneOnlyForTombstones ==
    Parsed /\ ValidRequest =>
      /\ http.get_status \in {404, 410} => incoming.outcome = WebmentionGone
      /\ Is2xx(http.get_status) /\ ~TargetInBody =>
           incoming.outcome = WebmentionGone
      /\ ~Is2xx(http.get_status) /\ http.get_status \notin {404, 410} =>
           incoming.outcome \notin {Ok, WebmentionGone}

\* C19: the route answers 200 with {"status": "ok"} when processing
\* succeeds, and 400 with an error body when processing fails with
\* WebmentionGone, or with the validation error of a missing source or
\* target or of a target whose host is not the host of the base URL.
C19_RouteAnswers ==
    http.pc = "responded" =>
      /\ incoming.result = Ok => http.response = <<200, "status", "ok">>
      /\ incoming.result = WebmentionGone \/ ~ValidRequest =>
           /\ http.response[1] = 400
           /\ http.response[2] = "error"

\* ------------------------------------------------------------------------
\* Properties of the two servers together
\* ------------------------------------------------------------------------
\* The sources of the incoming mentions the receiver holds for its page
ReceivedSources ==
    {m.source : m \in retrieve_webmentions(table, ReceiverUrl, INCOMING)}

\* C20: the incoming sources the receiver holds for the target follow the
\* latest content of the watched source file: when the file is changed
\* step by step, each change made after all that the one before had set
\* off was done, then once the last change is worked off the receiver
\* holds the source iff the file exists and links the target; after a
\* rewrite without the link and after a delete it holds no mention of the
\* source.
C20_ReceiverFollowsFile ==
    Quiet /\ file.paced =>
      ReceivedSources = IF file.exists /\ ReceiverUrl \in links(file.doc)
                        THEN {SenderUrl} ELSE {}

\* ------------------------------------------------------------------------
\* Properties of the monitor
\* ------------------------------------------------------------------------
\* The monitor's last call passes the mapped URL and the change's format,
\* and as text "" for DELETED, the change's text otherwise.
MonitorPasses ==
    monitor.change.change_type # "none" =>
      /\ monitor.call.source_url = SenderUrl
      /\ monitor.call.text_format = monitor.change.text_format
      /\ monitor.call.text = IF monitor.change.change_type = DELETED
                             THEN Some(<<>>) ELSE monitor.change.text

\* C21: for a DELETED change the monitor calls the outgoing processor with
\* the mapped URL, text "" and the change's format; T_now is empty, every
\* previously sent target of the source is dispatched as removed and none
\* as added. For ADDED and EDITED it passes the change's text and format.
C21_DeletedRemovesAllSent ==
    /\ MonitorPasses
    /\ monitor.change.change_type = DELETED =>
         LET i == Len(calls) IN
         /\ calls[i].now = {}
         /\ calls[i].pc = "dispatched" =>
              /\ RemovedTargets(i) = calls[i].sent
              /\ AddedTargets(i) = {}

\* ------------------------------------------------------------------------
\* Properties of the parser's reading of a page
\* ------------------------------------------------------------------------
Returned(fn) == applied.fn = fn /\ applied.result # None

\* The kinds of response, in the order of MentionProps
MentionKinds == <<LIKE, REPOST, BOOKMARK, REPLY, FOLLOW>>

\* The properties of the entry whose list holds the target itself
Listing(props, target_url) ==
    {i \in 1..Len(MentionProps) :
       \E j \in 1..Len(props[MentionProps[i]]) :
         props[MentionProps[i]][j] = Str(target_url)}

Earliest(S) == CHOOSE i \in S : \A j \in S : i <= j

\* C22: for an entry whose mention type is still UNKNOWN the inferred type is
\* that of the first property, in the order like-of, repost-of, bookmark-of,
\* in-reply-to, follow-of, whose list holds the target exactly; if no list
\* holds it the type is RSVP when rsvp is present and MENTION otherwise;
\* mention_type_raw is the name of the chosen property, or "mention".
C22_TypeInference ==
    (Returned("_infer_mention_type_from_entry")
       /\ applied.args.mention.mention_type = UNKNOWN) =>
      LET props == applied.args.props
          listing == Listing(props, applied.args.target_url)
          m == applied.result[1]
      IN  IF listing # {}
          THEN /\ m.mention_type = MentionKinds[Earliest(listing)]
               /\ m.mention_type_raw = Some(MentionProps[Earliest(listing)])
          ELSE IF props["rsvp"] # <<>>
          THEN m.mention_type = RSVP /\ m.mention_type_raw = Some("rsvp")
          ELSE m.mention_type = MENTION /\ m.mention_type_raw = Some("mention")

\* An entry that lists the target as a repost, as a reply and, with a
\* trailing slash only, as a like is a REPOST.
C22_Witness ==
    /\ Returned("_infer_mention_type_from_entry")
    /\ applied.args.mention.mention_type = UNKNOWN
    /\ applied.args.props["like-of"] = <<Str(NearUrl)>>
    /\ Listing(applied.args.props, applied.args.target_url) = {2, 4}
    /\ applied.result[1].mention_type = REPOST

\* C23: parsing a source whose body is nothing but a plain link to the
\* target, without microformats, succeeds and returns a mention with
\* direction IN and mention type MENTION.
C23_PlainLinkIsMention ==
    (Returned("parse")
       /\ applied.args.source # ""
       /\ Is2xx(applied.args.status_code)
       /\ applied.args.doc = PlainLink
       /\ applied.args.items = <<>>) =>
      /\ applied.result[1].outcome = Ok
      /\ applied.result[1].mention # None
      /\ applied.result[1].mention[1].direction = INCOMING
      /\ applied.result[1].mention[1].mention_type = MENTION

\* The target is in the document only inside a longer URL: no href or src
\* is the target, one holds it, and no text does.
OnlyInLongerUrl(doc, target) ==
    /\ \A i \in 1..Len(doc) : doc[i].value # target
    /\ \E i \in 1..Len(doc) :
         doc[i].attr \in {"href", "src"} /\ Contains(doc[i].value, target)
    /\ \A i \in 1..Len(doc) :
         doc[i].attr = "" => ~Contains(doc[i].value, target)

\* C37: when the fetched source holds the target only as part of a longer
\* URL, such as the target followed by a slash, parse fails with
\* WebmentionGone.
C37_ExactTargetMatch ==
    (Returned("parse")
       /\ applied.args.source # ""
       /\ Is2xx(applied.args.status_code)
       /\ OnlyInLongerUrl(applied.args.doc, applied.args.target)) =>
      /\ applied.result[1].outcome = WebmentionGone
      /\ applied.result[1].mention = None

\* ------------------------------------------------------------------------
\* Properties of the entity model
\* ------------------------------------------------------------------------
\* A datetime without timezone read as UTC
AsUTC(d) == IF d # None /\ d[2] = Naive THEN datetime(d[1], UTC) ELSE d

UpToUTC(m) ==
    [m EXCEPT !.published = AsUTC(m.published),
              !.created_at = AsUTC(m.created_at),
              !.updated_at = AsUTC(m.updated_at)]

\* C24: for every mention m, of either direction, any status and any mention
\* type with its raw property name, Webmention.build(m.to_dict()) equals m
\* field by field, up to timezone-less datetimes being read as UTC.
C24_BuildInvertsToDict ==
    Returned("build") => applied.result[1] = UpToUTC(applied.args.m)

\* ------------------------------------------------------------------------
\* Properties of the Link header
\* ------------------------------------------------------------------------
\* How often a occurs in b
Occurrences(b, a) ==
    Cardinality({i \in 1..(Len(b) - Len(a) + 1) :
                   SubSeq(b, i, i + Len(a) - 1) = a})

IsText(content_type) ==
    content_type # None /\ startswith(content_type[1], "text/")

\* C25: after the hook a response whose content type starts with text/ has a
\* Link header holding the rel="webmention" value of each bound endpoint
\* exactly once, also when the response carried the value already or several
\* endpoints are bound, and passing the hook again changes nothing; a
\* response of another content type has the Link header it had.
C25_LinkHeader ==
    Returned("after_request") =>
      LET response == applied.args.response
          endpoints == applied.args.endpoints
          out == applied.result[1]
      IN  IF IsText(response.content_type)
          THEN /\ out.link # None
               /\ \A i \in 1..Len(endpoints) :
                    Occurrences(out.link[1],
                                webmention_link_header_value(endpoints[i])) = 1
               /\ webmentions_link_header_after_request(out, endpoints) = out
               /\ out.content_type = response.content_type
          ELSE out = response

\* A text response that already carries the value of one of two bound
\* endpoints, after another link, comes out with both values.
C25_Witness ==
    /\ Returned("after_request")
    /\ IsText(applied.args.response.content_type)
    /\ Len(applied.args.endpoints) = 2
    /\ applied.args.response.link # None
    /\ Occurrences(applied.args.response.link[1],
                   webmention_link_header_value(Endpoint)) = 1
    /\ Occurrences(applied.args.response.link[1], "rel=\"next\"") = 1
    /\ Occurrences(applied.result[1].link[1],
                   webmention_link_header_value(ApiEndpoint)) = 1
    /\ applied.result[1].link # applied.args.response.link

\* ------------------------------------------------------------------------
\* Properties of the watcher's worker and of its flush
\* ------------------------------------------------------------------------
\* C26: under any sequence of start() and stop() calls at most one worker
\* thread is alive at any moment, also after a stop() whose join of a busy
\* worker timed out and a start() that followed it.
C26_OneWorker == workers_alive <= 1

\* C27: a flush delivers a pending path only if the path's last event and
\* the watcher's last processed time are both at least the debounce interval
\* old; a path for which either fails gets no sink call and keeps its pending
\* entry, last-event time and last-event type; a delivered path is removed
\* from the pending set and from both maps. No other step calls the sink or
\* drops a pending path.
C27_FlushDeliversWhenBothOld ==
    [][/\ Flushed =>
            \A p \in pending_paths :
              IF /\ monotonic - last_event_at[p] >= throttle_seconds
                 /\ monotonic - last_processed_at >= throttle_seconds
              THEN /\ Cardinality(SinkCalls(on_change', p)) = 1
                   /\ p \notin pending_paths'
                   /\ p \notin DOMAIN last_event_at'
                   /\ p \notin DOMAIN last_event_type'
              ELSE /\ SinkCalls(on_change', p) = {}
                   /\ p \in pending_paths'
                   /\ last_event_at'[p] = last_event_at[p]
                   /\ last_event_type'[p] = last_event_type[p]
       /\ ~Flushed => /\ on_change' = on_change
                      /\ pending_paths \subseteq pending_paths'
                      /\ DOMAIN last_event_at \subseteq DOMAIN last_event_at'
                      /\ DOMAIN last_event_type \subseteq DOMAIN last_event_type']_vars

\* One file was delivered a second ago; the other has been quiet for the
\* debounce interval and is still pending, the last processed time being
\* too recent.
C27_Witness ==
    /\ watch_thread # None
    /\ AMd \notin pending_paths
    /\ \E k \in DOMAIN on_change : on_change[k].path = AMd
    /\ BMd \in pending_paths
    /\ monotonic - last_event_at[BMd] >= throttle_seconds
    /\ monotonic - last_processed_at < throttle_seconds

\* C28: an exception raised by the sink during a flush is caught: the worker
\* stays alive, every path that was due in the flush, the failing one
\* included, got its one sink call and lost its pending state, and no path
\* has more than one sink call since its last event.
C28_SinkExceptionCaught ==
    [][(Flushed /\ sink_raised' # {}) =>
         /\ watch_thread' = watch_thread /\ watch_thread' # None
         /\ workers_alive' = workers_alive
         /\ sink_raised' \subseteq pending_paths
         /\ \A p \in pending_paths :
              (/\ monotonic - last_event_at[p] >= throttle_seconds
               /\ monotonic - last_processed_at >= throttle_seconds) =>
                /\ Cardinality(SinkCalls(on_change', p)) = 1
                /\ p \notin pending_paths'
                /\ p \notin DOMAIN last_event_at'
                /\ p \notin DOMAIN last_event_type'
         /\ \A p \in DOMAIN accepted' : accepted'[p].calls <= 1]_vars

\* Two files were due in one flush and the sink raised for the first: both
\* were handed to the sink, neither is pending, the worker is running.
C28_Witness ==
    /\ sink_raised = {AMd}
    /\ \E k \in DOMAIN on_change : on_change[k].path = AMd
    /\ \E k \in DOMAIN on_change : on_change[k].path = BMd
    /\ pending_paths = {}
    /\ watch_thread # None /\ workers_alive = 1
    /\ accepted[AMd].calls = 1

AllFinished ==
    /\ Len(calls) = MaxChanges
    /\ \A i \in 1..Len(calls) : calls[i].pc = "dispatched"
    /\ \A t \in tasks : t.pc = "done"

AllSucceeded == \A t \in tasks : t.net = PostOk

StoredOut(source) ==
    {r.target : r \in {x \in table : x.source = source
                                      /\ x.direction = OUTGOING}}

\* C30: two calls of the outgoing processor for the same source, made one
\* after the other, every discovery and POST succeeding: once all tasks of
\* both calls have finished, the stored OUT targets of the source are the
\* targets of the text of the last call.
C30_LastCallWins ==
    (AllFinished /\ AllSucceeded) =>
      StoredOut(SenderUrl) = calls[Len(calls)].now

\* ------------------------------------------------------------------------
\* Properties of the enrichment
\* ------------------------------------------------------------------------
\* The mention as given and after each step of _parse_source_payload
Steps == applied.result[1]

TextFields ==
    {"title", "excerpt", "content", "author_name", "author_url",
     "author_photo"}

AuthorFields == {"author_name", "author_url", "author_photo"}

Aware(d) == d = None \/ d[2] # Naive

\* C38: the published of a mention that parse or Webmention.build returns
\* is absent or carries a timezone.
C38_PublishedAware ==
    /\ (Returned("_parse_source_payload")
          /\ applied.args.mention = NoFields) =>
         Aware(Steps[Len(Steps)].published)
    /\ Returned("build") => Aware(applied.result[1].published)

\* C39: no step of the enrichment changes a field that holds a value when
\* the step starts: a text field, the published time, the mention type with
\* its raw name; the author step changes nothing when one of the author
\* fields holds a value.
C39_StepsOnlyFill ==
    Returned("_parse_source_payload") =>
      \A i \in 1..(Len(Steps) - 1) :
        LET before == Steps[i]
            after == Steps[i + 1]
        IN  /\ \A f \in TextFields :
                 Truthy(before[f]) => after[f] = before[f]
            /\ before.published # None => after.published = before.published
            /\ before.mention_type # UNKNOWN =>
                 /\ after.mention_type = before.mention_type
                 /\ after.mention_type_raw = before.mention_type_raw
            /\ (i = 2 /\ \E f \in AuthorFields : Truthy(before[f])) =>
                 \A f \in AuthorFields : after[f] = before[f]

\* A mention that has an author name already, an h-entry with an author of
\* another name and a URL, and a page whose meta tags give a title and an
\* author: the name stays, the URL stays unset, and the title is the
\* h-entry's.
C39_Witness ==
    /\ Returned("_parse_source_payload")
    /\ applied.args.mention.author_name = Some("Already")
    /\ applied.args.entry # None
    /\ applied.args.entry[1]["author"] # <<>>
    /\ applied.args.entry[1]["name"] # <<>>
    /\ applied.args.metas.og_title # None
    /\ applied.args.metas.author # None
    /\ Steps[Len(Steps)].author_name = Some("Already")
    /\ Steps[Len(Steps)].author_url = None
    /\ Steps[Len(Steps)].title = Some("Name")

\* C40: an excerpt derived from the content (the mention had neither, the
\* h-entry has no summary) is the content with every run of whitespace as
\* one space, trimmed, and cut to 240 characters when the content is the
\* h-entry's and to 250 when it is the page's description; it stays absent
\* when nothing is left of the content.
C40_DerivedExcerpt ==
    (Returned("_parse_source_payload")
       /\ ~Truthy(applied.args.mention.excerpt)
       /\ ~Truthy(applied.args.mention.content)
       /\ (applied.args.entry # None =>
             ~Truthy(first_str(applied.args.entry[1]["summary"])))
       /\ Truthy(Steps[Len(Steps)].content)) =>
      LET from_entry == Truthy(Steps[2].content)
          limit == IF from_entry THEN 240 ELSE 250
          collapsed == strip(sub_whitespace(Steps[Len(Steps)].content[1]))
      IN  Steps[Len(Steps)].excerpt =
            IF collapsed = "" THEN None
            ELSE IF Len(collapsed) <= limit THEN Some(collapsed)
            ELSE Some(SubSeq(collapsed, 1, limit))

\* ------------------------------------------------------------------------
\* Properties of the FastAPI binding
\* ------------------------------------------------------------------------
\* C36: every route bind_webmentions was called for, the first included, is
\* registered, and a POST to it invokes process_incoming_webmention with the
\* source and target of the form.
C36_EveryBindRegisters ==
    /\ app.endpoints \subseteq app.routes
    /\ (app.post # None /\ app.post[1].bound) =>
         /\ app.post[1].found
         /\ http.pc \in {"request", "responded"}
         /\ http.source = app.post[1].source
         /\ http.target = app.post[1].target
         /\ incoming.pc # "idle" =>
              /\ incoming.source = app.post[1].source
              /\ incoming.target = app.post[1].target

\* ------------------------------------------------------------------------
\* Properties of the change built for a path
\* ------------------------------------------------------------------------
\* The formats by extension
Formats ==
    (".html" :> HTML) @@ (".htm" :> HTML) @@ (".md" :> MARKDOWN)
      @@ (".markdown" :> MARKDOWN) @@ (".txt" :> TEXT) @@ (".text" :> TEXT)

\* C35: for a deleted event or a file that is gone the change is DELETED
\* with neither text nor format; else it is ADDED for created and EDITED for
\* modified, with the format of the extension and the text read, or no text
\* when reading fails; without a format for the extension no change is built
\* and the sink is not called, so the sink sees no ADDED or EDITED change
\* without a format.
C35_BuildChange ==
    Returned("_build_change") =>
      LET a == applied.args
          change == applied.result[1].change
          sink == applied.result[1].on_change
          ext == a.abs_path[3]
      IN  /\ IF a.event_type = "deleted" \/ ~a.isfile
             THEN /\ change = Some(ContentChange(DELETED, a.abs_path, None,
                                                  None))
                  /\ sink = change
             ELSE IF ext \notin DOMAIN Formats
             THEN change = None /\ sink = <<>>
             ELSE /\ change # None
                  /\ change[1].change_type =
                       (IF a.event_type = "created" THEN ADDED ELSE EDITED)
                  /\ change[1].path = a.abs_path
                  /\ change[1].text = a.read
                  /\ change[1].text_format = Some(Formats[ext])
                  /\ sink = change
          /\ \A i \in DOMAIN sink :
               sink[i].change_type \in {ADDED, EDITED} =>
                 sink[i].text_format # None

\* An existing file without a known format was modified: nothing is built
C35_Witness ==
    /\ Returned("_build_change")
    /\ applied.args.event_type = "modified" /\ applied.args.isfile
    /\ applied.args.abs_path[3] = ".bin"
    /\ applied.result[1].on_change = <<>>

\* ------------------------------------------------------------------------
\* Properties of concurrent calls of the SQL storage
\* ------------------------------------------------------------------------
\* C32: a mention stored with status PENDING or DELETED is read back with
\* that status, never as CONFIRMED.
C32_StatusReadBack ==
    (db.op = "store" /\ db.ok /\ db.mention.status \in {PENDING, DELETED}) =>
      /\ Read(table, db.mention) # {}
      /\ \A x \in Read(table, db.mention) : x.status = db.mention.status

\* C33: Store succeeds for every mention with a non-empty source and
\* target, also one without a published time: its row is in the table and
\* a later Retrieve returns it.
C33_StoreSucceeds ==
    (db.op = "store" /\ db.mention.source # "" /\ db.mention.target # "") =>
      /\ db.ok
      /\ RowsOf(table, db.mention) # {}
      /\ Read(table, db.mention) # {}

\* C34: after a Store of a key that has a row, what is read for the key has
\* the title, published instant, mention type and metadata of the mention
\* just stored.
C34_SecondStoreReplaces ==
    [][(db'.op = "store" /\ db'.ok /\ ~db'.fresh) =>
         /\ Read(table', db'.mention) # {}
         /\ \A x \in Read(table', db'.mention) :
              /\ x.title = db'.mention.title
              /\ x.published # None
              /\ Instant(x.published) = Instant(db'.mention.published)
              /\ x.mention_type = db'.mention.mention_type
              /\ x.metadata = db'.mention.metadata]_vars

\* C31: when Store calls for one key run concurrently with each other and
\* with Delete calls for the key, every Store call ends without raising and
\* the table holds at most one row for the key.
C31_ConcurrentStore ==
    /\ \A s \in Sessions : sessions[s].raised = ""
    /\ \A r1, r2 \in table : Key(r1) = Key(r2) => r1 = r2

====
